---- MODULE Spec2Model ----
(***************************************************************************)
(* Greenlight API: the request pipeline (middleware chain, authorization   *)
(* gates, handlers) and the optimistic-concurrency data-access layer.      *)
(*                                                                         *)
(* The module holds several specifications over one set of variables:      *)
(*   SpecMovies  the movies table, MovieModel and the movie handlers       *)
(*   Spec        the middleware chain, the permission gate, the handlers   *)
(*   SpecAuth    the chain with every shape of Authorization header        *)
(*   SpecTokens  the token lookups of authenticate and of the activation   *)
(*   SpecPanic   the chain with handlers that panic                        *)
(*   SpecMetrics the counters of the metrics middleware                    *)
(*   SpecCORS    enableCORS against origins and preflight requests         *)
(*   SpecRate    the per-client token bucket of rateLimit and its sweep    *)
(*   SpecUsers   the registration handler, UserModel.Insert, the email     *)
(*               tasks                                                     *)
(*   SpecShutdown  serve(): signal, Shutdown, the wait for the background  *)
(*               tasks; SpecShutdownFair adds the scheduler's fairness     *)
(*   SpecTokenNew  TokenModel.New against a store whose INSERT can fail    *)
(*   SpecValidation  the four handlers that validate a body before writing *)
(*   SpecFilters  MovieModel.GetAll against every Filters value            *)
(*   SpecModel   MovieModel.Get, Delete and Insert called with any id      *)
(*   SpecLimiter  rateLimit step by step: mutex, map, cleanup goroutine;   *)
(*               SpecLimiterFair adds the scheduler's fairness             *)
(*   SpecSweep   the cleanup goroutine over the time clients go stale      *)
(*   SpecRefuse  the chain with requests that reach the store unless 429   *)
(*   SpecActivate  two goroutines activating with one token                *)
(*   SpecRegFault  the registration handler with a token INSERT that can   *)
(*               fail                                                      *)
(* A specification leaves the variables of the other parts at their        *)
(* initial values.                                                         *)
(*                                                                         *)
(* The relational store is modelled by the meaning of each SQL statement   *)
(* the models issue; one statement is one atomic step, and the store       *)
(* executes every statement it is given (no driver error, no timeout),     *)
(* except in SpecTokenNew and SpecRegFault, where the INSERT of a token    *)
(* may time out.  The clock counts ticks; in SpecRate, SpecLimiter and     *)
(* SpecSweep a tick is a minute.                                           *)
(***************************************************************************)
EXTENDS Integers, Sequences, FiniteSets, TLC

(***************************************************************************)
(* Bounds of the model.                                                    *)
(***************************************************************************)
NumProcs == 2          \* concurrent request goroutines
MaxMovieID == 2        \* the movies id sequence stops here
MaxCalls == 4          \* handler invocations in one behaviour of SpecMovies
NumReqProcs == 1       \* goroutines serving requests through the chain
MaxReqs == 2           \* requests received in one behaviour of Spec
MaxTime == 2           \* the clock of Spec stops here
PipeBurst == 1         \* -limiter-burst in Spec
RateBurst == 5         \* -limiter-burst in SpecRate
RatePerTick == 1       \* the limiter's rate in SpecRate, in tokens per tick
MaxRateReqs == 11      \* requests received in one behaviour of SpecRate
MaxRateTime == 4       \* the clock of SpecRate stops here
MaxRegs == 3           \* POST /v1/users requests in one behaviour
MaxNewCalls == 2       \* TokenModel.New calls in one behaviour of SpecTokenNew
MaxValReqs == 3        \* requests in one behaviour of SpecValidation

(***************************************************************************)
(* Program constants.                                                      *)
(***************************************************************************)
MaxTitleBytes == 500   \* ValidateMovie: title must not be more than 500 bytes
MinYear == 1888        \* ValidateMovie: year must be >= 1888
MaxGenres == 5         \* ValidateMovie: at most 5 genres
CurrentYear == 2026    \* time.Now().Year() at the time of the requests

StatusOK == 200
StatusCreated == 201
StatusBadRequest == 400
StatusNotFound == 404
StatusConflict == 409
StatusUnprocessableEntity == 422
StatusInternalServerError == 500
StatusUnauthorized == 401
StatusForbidden == 403
StatusTooManyRequests == 429

TokenBytes == 26       \* ValidateTokenPlaintext: exactly 26 bytes
AuthExpiry == 2        \* expiry tick of the authentication tokens in the store
ActivationExpiry == 1  \* expiry tick of the activation token in the store
SweepIdle == 3         \* the sweep deletes clients idle for more than 3 minutes

StatusAccepted == 202
ActivationTTL == 3     \* registerUserHandler: 3*24*time.Hour, in days
MaxNameBytes == 500    \* ValidateUser: name must not be more than 500 bytes
MinPasswordBytes == 8  \* ValidatePasswordPlaintext: at least 8 bytes
MaxPasswordBytes == 72 \* ValidatePasswordPlaintext: not more than 72 bytes
MaxPage == 10000000    \* ValidateFilters: page must be a maximum of 10 million
MaxPageSize == 100     \* ValidateFilters: page_size must be a maximum of 100

VARIABLES
    movies,        \* the movies table: id -> row
    nextMovieID,   \* the bigserial sequence behind movies.id
    mreq,          \* per goroutine: the movie handler it runs and its locals
    mcalls,        \* handler invocations so far (bounds the behaviour)
    updLog,        \* history: every MovieModel.Update call, in statement order
    lastOp,        \* history: the last statement executed on the movies table
    users,         \* the users table: id -> row
    tokens,        \* the tokens table: a set of rows keyed by hash
    permissions,   \* users_permissions joined with permissions: id -> codes
    now,           \* the wall clock, in ticks
    limiterCfg,    \* app.config.limiter
    clients,       \* rateLimit's map: ip -> client
    mu,            \* rateLimit's mutex: 0 when free, else the holder
    preq,          \* per goroutine: the request it serves and its locals
    reqCount,      \* requests received so far (bounds the behaviour)
    counters,      \* the expvar counters of the metrics middleware
    revoked,       \* history: the permissions taken away so far
    recovered,     \* history: the response to the last panic recoverPanic caught
    admitted,      \* history: the client's first request, its requests, those let through
    nextUserID,    \* the bigserial sequence behind users.id
    ureq,          \* per goroutine: the registration it runs and its locals
    ucalls,        \* registrations received so far (bounds the behaviour)
    entropy,       \* texts drawn from crypto/rand so far
    accepted,      \* history: email and user id of every 202 of POST /v1/users
    wg,            \* app.wg: the counter of the sync.WaitGroup
    tasks,         \* the goroutines started by background(), in start order
    mainPc,        \* serve(): where the calling goroutine is
    shutPc,        \* serve(): where the signal goroutine is
    exited,        \* the process has ended
    tnew,          \* SpecTokenNew: the last call of TokenModel.New and its results
    dcall,         \* the last direct call of a data-layer function and its results
    sweeper,       \* rateLimit's cleanup goroutine: where it is, when its sleep ends
    access         \* history: the last access to rateLimit's map and the mutex's holder then

movieVars == <<movies, nextMovieID, mreq, mcalls, updLog, lastOp>>
storeVars == <<users, tokens, permissions, now>>
pipeVars ==
    <<storeVars, limiterCfg, clients, mu, preq, reqCount, counters, revoked,
      recovered, admitted>>
chainVars ==
    <<limiterCfg, clients, mu, preq, reqCount, counters, revoked, recovered,
      admitted>>
userVars == <<nextUserID, ureq, ucalls, entropy, accepted>>
bgVars == <<wg, tasks>>
serveVars == <<mainPc, shutPc, exited>>
callVars == <<tnew, dcall>>
limVars == <<sweeper, access>>
appVars == <<userVars, bgVars, serveVars, callVars, limVars>>
vars == <<movieVars, pipeVars, appVars>>

Procs == 1..NumProcs

(***************************************************************************)
(* Values of the movie fields that requests carry.                         *)
(***************************************************************************)
LongTitle == [i \in 1..(MaxTitleBytes + 1) |-> "x"]
TitleA == <<"A">>
TitleB == <<"B">>
EmptyTitle == <<>>

None == [some |-> FALSE]
Some(v) == [some |-> TRUE, v |-> v]

GenresOK == <<"drama">>
GenresDup == <<"drama", "drama">>

\* Bodies of POST /v1/movies (a body that is not JSON is the record bad).
CreateInputs ==
    [bad : {FALSE}, title : {TitleA, EmptyTitle}, year : {1999, MinYear - 1},
     runtime : {102}, genres : {GenresOK}]
    \cup {[bad |-> TRUE, title |-> EmptyTitle, year |-> 0, runtime |-> 0,
           genres |-> <<>>]}

\* Bodies of PATCH /v1/movies/:id: every field is optional (a nil pointer or
\* a nil slice when the key is absent).
PatchInputs ==
    [bad : {FALSE},
     title : {None, Some(TitleB), Some(LongTitle)},
     year : {None},
     runtime : {None, Some(0)},
     genres : {None, Some(GenresDup)}]
    \cup {[bad |-> TRUE, title |-> None, year |-> None, runtime |-> None,
           genres |-> None]}

\* The :id path parameter, as readIDParam sees it after ParseInt.
IDParams == 0..MaxMovieID

(***************************************************************************)
(* validator.Unique and data.ValidateMovie.                                *)
(***************************************************************************)
Unique(values) ==
    \A i, j \in 1..Len(values) : values[i] = values[j] => i = j

\* The set of field keys that carry an error after ValidateMovie; Valid() is
\* "no key carries an error".
ValidateMovie(m) ==
    {k \in {"title", "year", "runtime", "genres"} :
        \/ k = "title" /\ (m.title = <<>> \/ Len(m.title) > MaxTitleBytes)
        \/ k = "year" /\ (m.year = 0 \/ m.year < MinYear \/ m.year > CurrentYear)
        \/ k = "runtime" /\ (m.runtime = 0 \/ m.runtime <= 0)
        \/ k = "genres" /\ (Len(m.genres) < 1 \/ Len(m.genres) > MaxGenres
                            \/ ~Unique(m.genres))}

(***************************************************************************)
(* MovieModel: each operator gives the table after the statement and what  *)
(* the method returns.                                                     *)
(***************************************************************************)
\* INSERT INTO movies ... RETURNING id, created_at, version: the row gets the
\* next id of the sequence and the column default version = 1; Scan writes
\* id and version through the *Movie pointer.
MovieModelInsert(tbl, seq, m) ==
    LET row == [title |-> m.title, year |-> m.year, runtime |-> m.runtime,
                genres |-> m.genres, version |-> 1]
    IN [tbl |-> [i \in DOMAIN tbl \cup {seq} |-> IF i = seq THEN row ELSE tbl[i]],
        seq |-> seq + 1,
        err |-> "nil",
        movie |-> [id |-> seq, title |-> m.title, year |-> m.year,
                   runtime |-> m.runtime, genres |-> m.genres, version |-> 1]]

\* Get: id < 1 returns ErrRecordNotFound before any statement; SELECT ...
\* WHERE id = $1 with no row returns ErrRecordNotFound.
MovieModelGet(tbl, id) ==
    IF id < 1
    THEN [err |-> "ErrRecordNotFound", stmt |-> FALSE]
    ELSE IF id \notin DOMAIN tbl
    THEN [err |-> "ErrRecordNotFound", stmt |-> TRUE]
    ELSE [err |-> "nil", stmt |-> TRUE,
          movie |-> [id |-> id, title |-> tbl[id].title, year |-> tbl[id].year,
                     runtime |-> tbl[id].runtime, genres |-> tbl[id].genres,
                     version |-> tbl[id].version]]

\* UpdateMatches with the version test forgotten: WHERE id = $5.
UpdateMatchesIdOnly(tbl, m) == m.id \in DOMAIN tbl

\* The WHERE clause of Update's statement.
UpdateMatches(tbl, m) ==
    m.id \in DOMAIN tbl /\ tbl[m.id].version = m.version

\* MovieModelUpdate with "version = version + 1" forgotten in the SET list.
MovieModelUpdateNoBump(tbl, m) ==
    IF UpdateMatches(tbl, m)
    THEN [tbl |-> [tbl EXCEPT ![m.id] =
                     [title |-> m.title, year |-> m.year, runtime |-> m.runtime,
                      genres |-> m.genres, version |-> @.version]],
          err |-> "nil",
          scanned |-> tbl[m.id].version]
    ELSE [tbl |-> tbl, err |-> "ErrEditConflict", scanned |-> m.version]

\* UPDATE movies SET title, year, runtime, genres, version = version + 1
\* WHERE id = $5 AND version = $6 RETURNING version.  The method takes the
\* Movie BY VALUE: Scan(&movie.Version) writes the new version into the
\* method's own copy (scanned), which is dropped when the method returns.
MovieModelUpdate(tbl, m) ==
    IF UpdateMatches(tbl, m)
    THEN [tbl |-> [tbl EXCEPT ![m.id] =
                     [title |-> m.title, year |-> m.year, runtime |-> m.runtime,
                      genres |-> m.genres, version |-> @.version + 1]],
          err |-> "nil",
          scanned |-> tbl[m.id].version + 1]
    ELSE [tbl |-> tbl, err |-> "ErrEditConflict", scanned |-> m.version]

\* Delete without the test of id: the statement is sent for every id.
MovieModelDeleteNoGuard(tbl, id) ==
    IF id \notin DOMAIN tbl
    THEN [tbl |-> tbl, err |-> "ErrRecordNotFound", stmt |-> TRUE]
    ELSE [tbl |-> [i \in DOMAIN tbl \ {id} |-> tbl[i]], err |-> "nil",
          stmt |-> TRUE]

\* Delete: id < 1 returns ErrRecordNotFound before any statement; DELETE
\* FROM movies WHERE id = $1 with zero rows affected returns it too.
MovieModelDelete(tbl, id) ==
    IF id < 1
    THEN [tbl |-> tbl, err |-> "ErrRecordNotFound", stmt |-> FALSE]
    ELSE IF id \notin DOMAIN tbl
    THEN [tbl |-> tbl, err |-> "ErrRecordNotFound", stmt |-> TRUE]
    ELSE [tbl |-> [i \in DOMAIN tbl \ {id} |-> tbl[i]], err |-> "nil",
          stmt |-> TRUE]


\* GetAll with the default sort "id": SELECT only; the rows in id order.
\* (Title and genre filters, pagination and the safelisted sort column are
\* not exercised here: every row matches and one page holds them all.)
RECURSIVE RowsFrom(_, _)
RowsFrom(tbl, i) ==
    IF i > MaxMovieID THEN <<>>
    ELSE IF i \in DOMAIN tbl
    THEN <<[id |-> i, version |-> tbl[i].version, title |-> tbl[i].title]>>
         \o RowsFrom(tbl, i + 1)
    ELSE RowsFrom(tbl, i + 1)

MovieModelGetAll(tbl) == [err |-> "nil", rows |-> RowsFrom(tbl, 1)]

(***************************************************************************)
(* The movie handlers of cmd/api/movies.go, as the router invokes them.    *)
(***************************************************************************)
NoMovie ==
    [id |-> 0, title |-> <<>>, year |-> 0, runtime |-> 0, genres |-> <<>>,
     version |-> 0]

\* What a finished handler has written: the status, the movie of the
\* envelope (NoMovie when the envelope carries none) and, for the history,
\* the version the handler had read and the version stored in the row when
\* the response was written.
Response(op, status, movie, readVersion, storedVersion) ==
    [op |-> op, status |-> status, movie |-> movie, readVersion |-> readVersion,
     storedVersion |-> storedVersion]

NoResponse == Response("none", 0, NoMovie, 0, 0)

IdleReq == [pc |-> "idle", movie |-> NoMovie, resp |-> NoResponse]

StoredVersion(tbl, id) == IF id \in DOMAIN tbl THEN tbl[id].version ELSE 0

InitMovies ==
    /\ movies = <<>>
    /\ nextMovieID = 1
    /\ mreq = [p \in Procs |-> IdleReq]
    /\ mcalls = 0
    /\ updLog = <<>>
    /\ lastOp = [op |-> "none", id |-> 0, err |-> "nil"]

CanStart(p) == mreq[p].pc = "idle" /\ mcalls < MaxCalls

Finish(p, resp) ==
    mreq' = [mreq EXCEPT ![p] = [pc |-> "idle", movie |-> NoMovie, resp |-> resp]]

\* createMovieHandler with the Insert placed before ValidateMovie.
createMovieHandlerInsertFirst(p, in) ==
    /\ CanStart(p)
    /\ mcalls' = mcalls + 1
    /\ IF in.bad
       THEN /\ Finish(p, Response("create", StatusBadRequest, NoMovie, 0, 0))
            /\ UNCHANGED <<movies, nextMovieID, lastOp>>
       ELSE /\ nextMovieID <= MaxMovieID
            /\ LET r == MovieModelInsert(movies, nextMovieID, in)
               IN /\ movies' = r.tbl
                  /\ nextMovieID' = r.seq
                  /\ lastOp' = [op |-> "Insert", id |-> r.movie.id, err |-> r.err]
                  /\ IF ValidateMovie(in) # {}
                     THEN Finish(p, Response("create", StatusUnprocessableEntity,
                                             NoMovie, 0, 0))
                     ELSE Finish(p, Response("create", StatusCreated, r.movie, 0,
                                             r.movie.version))
    /\ UNCHANGED updLog

\* createMovieHandler: readJSON, ValidateMovie, Insert, 201 with the movie.
createMovieHandler(p, in) ==
    /\ CanStart(p)
    /\ mcalls' = mcalls + 1
    /\ IF in.bad
       THEN /\ Finish(p, Response("create", StatusBadRequest, NoMovie, 0, 0))
            /\ UNCHANGED <<movies, nextMovieID, lastOp>>
       ELSE IF ValidateMovie(in) # {}
       THEN /\ Finish(p, Response("create", StatusUnprocessableEntity, NoMovie, 0, 0))
            /\ UNCHANGED <<movies, nextMovieID, lastOp>>
       ELSE /\ nextMovieID <= MaxMovieID
            /\ LET r == MovieModelInsert(movies, nextMovieID, in)
               IN /\ movies' = r.tbl
                  /\ nextMovieID' = r.seq
                  /\ lastOp' = [op |-> "Insert", id |-> r.movie.id, err |-> r.err]
                  /\ Finish(p, Response("create", StatusCreated, r.movie, 0,
                                        r.movie.version))
    /\ UNCHANGED updLog

\* showMovieHandler: readIDParam, Get, 200 with the movie or 404.
showMovieHandler(p, id) ==
    /\ CanStart(p)
    /\ mcalls' = mcalls + 1
    /\ IF id < 1
       THEN /\ Finish(p, Response("show", StatusNotFound, NoMovie, 0, 0))
            /\ UNCHANGED lastOp
       ELSE LET r == MovieModelGet(movies, id)
            IN /\ lastOp' = [op |-> "Get", id |-> id, err |-> r.err]
               /\ IF r.err = "nil"
                  THEN Finish(p, Response("show", StatusOK, r.movie,
                                          r.movie.version, r.movie.version))
                  ELSE Finish(p, Response("show", StatusNotFound, NoMovie, 0, 0))
    /\ UNCHANGED <<movies, nextMovieID, updLog>>

\* listMoviesHandler's store access: GetAll.
listMovies(p) ==
    /\ CanStart(p)
    /\ mcalls' = mcalls + 1
    /\ LET r == MovieModelGetAll(movies)
       IN /\ lastOp' = [op |-> "GetAll", id |-> Len(r.rows), err |-> r.err]
          /\ Finish(p, Response("list", StatusOK, NoMovie, 0, 0))
    /\ UNCHANGED <<movies, nextMovieID, updLog>>

\* updateMovieHandler, first half: readIDParam and Movies.Get.  The handler
\* keeps the fetched movie (a *Movie) in its local variable.
updateMovieHandlerGet(p, id) ==
    /\ CanStart(p)
    /\ mcalls' = mcalls + 1
    /\ IF id < 1
       THEN /\ Finish(p, Response("update", StatusNotFound, NoMovie, 0, 0))
            /\ UNCHANGED lastOp
       ELSE LET r == MovieModelGet(movies, id)
            IN /\ lastOp' = [op |-> "Get", id |-> id, err |-> r.err]
               /\ IF r.err = "nil"
                  THEN mreq' = [mreq EXCEPT ![p] =
                                  [pc |-> "fetched", movie |-> r.movie,
                                   resp |-> NoResponse]]
                  ELSE Finish(p, Response("update", StatusNotFound, NoMovie, 0, 0))
    /\ UNCHANGED <<movies, nextMovieID, updLog>>

\* The partial update: a field of the body that is present overwrites the
\* fetched movie's field, an absent one leaves it.
ApplyPatch(m, in) ==
    [m EXCEPT !.title = IF in.title.some THEN in.title.v ELSE @,
              !.year = IF in.year.some THEN in.year.v ELSE @,
              !.runtime = IF in.runtime.some THEN in.runtime.v ELSE @,
              !.genres = IF in.genres.some THEN in.genres.v ELSE @]

\* The movie the handler holds after Movies.Update(*movie) returned nil:
\* the argument was a copy, so the handler's struct keeps the version it
\* had read; the version Update scanned is lost with the copy.
MovieAfterUpdate(handlerMovie, scanned) == handlerMovie

\* updateMovieHandler, second half: readJSON, the partial update,
\* ValidateMovie, Movies.Update, and the response.
updateMovieHandlerWrite(p, in) ==
    /\ mreq[p].pc = "fetched"
    /\ LET fetched == mreq[p].movie
           movie == ApplyPatch(fetched, in)
           r == MovieModelUpdate(movies, movie)
       IN IF in.bad
          THEN /\ Finish(p, Response("update", StatusBadRequest, NoMovie, 0, 0))
               /\ UNCHANGED <<movies, updLog, lastOp>>
          ELSE IF ValidateMovie(movie) # {}
          THEN /\ Finish(p, Response("update", StatusUnprocessableEntity, NoMovie,
                                     0, 0))
               /\ UNCHANGED <<movies, updLog, lastOp>>
          ELSE /\ movies' = r.tbl
               /\ updLog' = Append(updLog,
                      [id |-> movie.id, supplied |-> movie.version,
                       stored |-> StoredVersion(movies, movie.id),
                       after |-> StoredVersion(r.tbl, movie.id),
                       err |-> r.err])
               /\ lastOp' = [op |-> "Update", id |-> movie.id, err |-> r.err]
               /\ IF r.err = "ErrEditConflict"
                  THEN Finish(p, Response("update", StatusConflict, NoMovie,
                                          fetched.version,
                                          StoredVersion(r.tbl, movie.id)))
                  ELSE Finish(p, Response("update", StatusOK,
                                          MovieAfterUpdate(movie, r.scanned),
                                          fetched.version,
                                          StoredVersion(r.tbl, movie.id)))
    /\ UNCHANGED <<nextMovieID, mcalls>>

\* deleteMovieHandler: readIDParam, Delete, 200 or 404.
deleteMovieHandler(p, id) ==
    /\ CanStart(p)
    /\ mcalls' = mcalls + 1
    /\ IF id < 1
       THEN /\ Finish(p, Response("delete", StatusNotFound, NoMovie, 0, 0))
            /\ UNCHANGED <<movies, lastOp>>
       ELSE LET r == MovieModelDelete(movies, id)
            IN /\ movies' = r.tbl
               /\ lastOp' = [op |-> "Delete", id |-> id, err |-> r.err]
               /\ IF r.err = "nil"
                  THEN Finish(p, Response("delete", StatusOK, NoMovie, 0, 0))
                  ELSE Finish(p, Response("delete", StatusNotFound, NoMovie, 0, 0))
    /\ UNCHANGED <<nextMovieID, updLog>>

(***************************************************************************)
(* The request pipeline: routes() wraps the router as                      *)
(*   metrics(recoverPanic(enableCORS(rateLimit(authenticate(router)))))    *)
(* and registers the movie routes behind requirePermission.                *)
(***************************************************************************)
ReqProcs == 1..NumReqProcs

ScopActivation == "activation"
ScopeAuthentication == "authentication"

\* ---- token plaintexts and the Authorization header -----------------------
\* A header value is a sequence of atoms: the words "Bearer" and "Basic",
\* the space, and pieces of token text.  TA1 and TA2 are the plaintexts of
\* the authentication tokens of users 1 and 2, TV2 the plaintext of user 2's
\* activation token, TV3 that of user 3, TX a 26-byte text never issued.
ByteLen(atom) ==
    CASE atom = "Bearer" -> 6
      [] atom = "Basic" -> 5
      [] atom = " " -> 1
      [] atom \in {"TA1", "TA2", "TV2", "TV3", "TX"} -> TokenBytes
      [] atom \in {"TN1", "TN2", "TN3", "TN4", "TN5", "TN6"} -> TokenBytes
      [] atom = "short" -> 5

RECURSIVE Bytes(_)
Bytes(s) == IF s = <<>> THEN 0 ELSE ByteLen(Head(s)) + Bytes(Tail(s))

\* strings.Split(s, " ")
RECURSIVE SplitAcc(_, _)
SplitAcc(s, cur) ==
    IF s = <<>> THEN <<cur>>
    ELSE IF Head(s) = " " THEN <<cur>> \o SplitAcc(Tail(s), <<>>)
    ELSE SplitAcc(Tail(s), Append(cur, Head(s)))

Split(s) == SplitAcc(s, <<>>)

\* sha256.Sum256 of a plaintext: one digest per plaintext, no collisions.
Hash(plaintext) == [sha256 |-> plaintext]

\* ValidateTokenPlaintext with the length test forgotten.
ValidateTokenPlaintextNonEmpty(tokenPlaintext) == tokenPlaintext # <<>>

\* ValidateTokenPlaintext: Valid() after the two checks.
ValidateTokenPlaintext(tokenPlaintext) ==
    tokenPlaintext # <<>> /\ Bytes(tokenPlaintext) = TokenBytes

\* ---- users, tokens, permissions ------------------------------------------
AnonymousUser == [id |-> 0, activated |-> FALSE, version |-> 0, anon |-> TRUE]

IsAnonymous(u) == u.anon

UserOf(tbl, id) ==
    [id |-> id, activated |-> tbl[id].activated, version |-> tbl[id].version,
     anon |-> FALSE]

\* The rows GetForToken's query selects: tokens joined with users WHERE
\* hash = digest AND scope = $2 AND expiry > now.
TokenRowsFor(tkns, tbl, scope, plaintext, t) ==
    {row \in tkns :
        /\ row.hash = Hash(plaintext)
        /\ row.scope = scope
        /\ row.expiry > t
        /\ row.userID \in DOMAIN tbl}

\* UserModel.GetForToken(scope, plaintext) at time t.
GetForToken(tkns, tbl, scope, plaintext, t) ==
    LET rows == TokenRowsFor(tkns, tbl, scope, plaintext, t)
    IN IF rows = {}
       THEN [err |-> "ErrRecordNotFound", user |-> AnonymousUser]
       ELSE [err |-> "nil", user |-> UserOf(tbl, (CHOOSE row \in rows : TRUE).userID)]

\* UserModel.Update: UPDATE users SET ..., version = version + 1 WHERE
\* id = $5 AND version = $6 RETURNING version; the *User gets the version.
UserModelUpdate(tbl, user) ==
    IF user.id \in DOMAIN tbl /\ tbl[user.id].version = user.version
    THEN [tbl |-> [tbl EXCEPT ![user.id] =
                     [@ EXCEPT !.activated = user.activated,
                                !.version = @ + 1]],
          err |-> "nil",
          user |-> [user EXCEPT !.version = tbl[user.id].version + 1]]
    ELSE [tbl |-> tbl, err |-> "ErrEditConflict", user |-> user]

\* DeleteAllForUser, were the statement DELETE FROM tokens WHERE scope = $1.
DeleteAllForScope(tkns, scope, userID) ==
    {row \in tkns : row.scope # scope}

\* TokenModel.DeleteAllForUser: DELETE FROM tokens WHERE scope = $1 AND
\* user_id = $2.
DeleteAllForUser(tkns, scope, userID) ==
    {row \in tkns : ~(row.scope = scope /\ row.userID = userID)}

\* PermissionModel.GetAllForUser: the codes joined to the user.
GetAllForUser(perms, tbl, userID) ==
    IF userID \in DOMAIN tbl /\ userID \in DOMAIN perms THEN perms[userID] ELSE {}

\* Permissions.Include
Include(perms, code) == code \in perms

\* ---- the response writer ---------------------------------------------------
\* status 0: nothing written yet.  headers is the header map; sent is the
\* header map as it went out with the status line; allowOrigin is the value
\* of Access-Control-Allow-Origin ("" when the header is not set).
NoResp == [status |-> 0, headers |-> {}, sent |-> {}, allowOrigin |-> ""]

SetHeader(resp, h) == [resp EXCEPT !.headers = @ \cup {h}]

\* http.ResponseWriter.WriteHeader: the first status written is the one sent.
WriteHeader(resp, status) ==
    IF resp.status # 0 THEN resp
    ELSE [resp EXCEPT !.status = status, !.sent = resp.headers]

\* writeJSON / errorResponse: Content-Type, WriteHeader(status), the body.
writeJSON(resp, status) ==
    WriteHeader(SetHeader(resp, "Content-Type: application/json"), status)

serverErrorResponse(resp) == writeJSON(resp, StatusInternalServerError)
rateLimitExceededResponse(resp) == writeJSON(resp, StatusTooManyRequests)
authenticationRequiredResponse(resp) == writeJSON(resp, StatusUnauthorized)
inactiveAccountResponse(resp) == writeJSON(resp, StatusForbidden)
notPermittedResponse(resp) == writeJSON(resp, StatusForbidden)
failedValidationResponse(resp) == writeJSON(resp, StatusUnprocessableEntity)
editConflictResponse(resp) == writeJSON(resp, StatusConflict)
badRequestResponse(resp) == writeJSON(resp, StatusBadRequest)
notFoundResponse(resp) == writeJSON(resp, StatusNotFound)

invalidAuthenticationTokenResponse(resp) ==
    writeJSON(SetHeader(resp, "WWW-Authenticate: Bearer"), StatusUnauthorized)

\* ---- the request-scoped user -----------------------------------------------
\* context.WithValue stores the value together with its dynamic type.
NoCtx == [set |-> FALSE, dyntype |-> "", user |-> AnonymousUser]

\* contextSetUser(r, user *data.User): the value stored is the pointer.
contextSetUser(user) == [set |-> TRUE, dyntype |-> "*data.User", user |-> user]

\* contextGetUser: r.Context().Value(userContextKey).(data.User); the
\* assertion holds only for a value whose dynamic type is data.User, and the
\* function panics when it does not hold.
contextGetUser(ctx) ==
    IF ctx.set /\ ctx.dyntype = "data.User"
    THEN [ok |-> TRUE, user |-> ctx.user]
    ELSE [ok |-> FALSE, user |-> AnonymousUser]

\* ---- routes ----------------------------------------------------------------
\* The code given to requirePermission for the route ("" when not gated).
RequiredPermission(route) ==
    CASE route = "GET /v1/movies" -> "movies:read"
      [] route = "POST /v1/movies" -> "movies:write"
      [] OTHER -> ""

Gated(route) == RequiredPermission(route) # ""

\* Where the router sends a request.
RouteEntry(route) ==
    CASE Gated(route) -> "gate"
      [] route = "PUT /v1/users/activated" -> "activate"
      [] route = "GET /v1/healthcheck" -> "handler"
      [] route = "OPTIONS /v1/healthcheck" -> "options"
      [] OTHER -> "notfound"

\* r.Method == http.MethodOptions
IsOptions(route) == route = "OPTIONS /v1/healthcheck"

\* Authorization headers: none; a resolvable token of an activated and of a
\* not activated user; an activation token; a token never issued; a token
\* of the wrong length; no token; the scheme alone; two spaces; another
\* scheme.
Headers ==
    {<<>>,
     <<"Bearer", " ", "TA1">>, <<"Bearer", " ", "TA2">>,
     <<"Bearer", " ", "TV2">>, <<"Bearer", " ", "TX">>,
     <<"Bearer", " ", "short">>, <<"Bearer", " ">>, <<"Bearer">>,
     <<"Bearer", " ", " ", "TA1">>, <<"Basic", " ", "TA1">>}

\* Bodies of PUT /v1/users/activated: the token field, or no JSON at all.
ActivationBodies ==
    {[bad |-> FALSE, token |-> <<"TV2">>], [bad |-> FALSE, token |-> <<"TA2">>],
     [bad |-> FALSE, token |-> <<"short">>], [bad |-> TRUE, token |-> <<>>]}

NoBody == [bad |-> FALSE, token |-> <<>>]

Req(route, header, body) ==
    [route |-> route, header |-> header, body |-> body, origin |-> "", acrm |-> FALSE]

\* A request with an Origin header ("" for none) and, when acrm, an
\* Access-Control-Request-Method header.
CORSReq(route, origin, acrm) ==
    [route |-> route, header |-> <<>>, body |-> NoBody, origin |-> origin,
     acrm |-> acrm]

\* -cors-trusted-origins
TrustedOrigins == <<"https://allowed.example", "https://app.example">>

\* Origin headers: none, the two trusted origins, an origin that has a
\* trusted one as its prefix, a trusted one in other letter case.
Origins ==
    {"", "https://allowed.example", "https://app.example",
     "https://allowed.example.evil.test", "https://ALLOWED.example"}

\* The requests of SpecCORS: the health check and its preflight, with every
\* origin, with and without Access-Control-Request-Method.
CORSRequests ==
    {CORSReq(route, origin, acrm) :
        route \in {"GET /v1/healthcheck", "OPTIONS /v1/healthcheck"},
        origin \in Origins, acrm \in BOOLEAN}


\* The requests of Spec: the gated routes as an anonymous, a not activated
\* and an activated user, the activation with every body, the health check
\* with no token, an activation token and a token never issued, and a path
\* that is not routed.
Requests ==
    {Req("GET /v1/movies", h, NoBody) :
        h \in {<<>>, <<"Bearer", " ", "TA1">>, <<"Bearer", " ", "TA2">>}}
    \cup {Req("POST /v1/movies", <<"Bearer", " ", "TA1">>, NoBody)}
    \cup {Req("PUT /v1/users/activated", <<>>, b) : b \in ActivationBodies}
    \cup {Req("GET /v1/healthcheck", h, NoBody) :
            h \in {<<>>, <<"Bearer", " ", "TV2">>, <<"Bearer", " ", "TX">>}}
    \cup {Req("GET /v1/nowhere", <<>>, NoBody)}

\* The requests of SpecAuth: the health check with every header.
AuthRequests == {Req("GET /v1/healthcheck", h, NoBody) : h \in Headers}

\* The requests of SpecTokens: the activation with every body, and the
\* health check bearing an authentication token, an activation token and a
\* token never issued.
TokenRequests ==
    {Req("PUT /v1/users/activated", <<>>, b) : b \in ActivationBodies}
    \cup {Req("GET /v1/healthcheck", h, NoBody) :
            h \in {<<"Bearer", " ", "TA2">>, <<"Bearer", " ", "TV2">>,
                   <<"Bearer", " ", "TX">>}}

\* The requests of SpecPanic: a gated route, anonymous and authenticated,
\* and the health check.
PanicRequests ==
    {Req("GET /v1/movies", <<>>, NoBody),
     Req("GET /v1/movies", <<"Bearer", " ", "TA1">>, NoBody),
     Req("GET /v1/healthcheck", <<>>, NoBody)}

\* The requests of SpecMetrics, one for each way a response comes about:
\* the handler's 200, authenticate's 401, a panic, the router's 404, and
\* the router's answer to OPTIONS, which writes no status.
MetricsRequests ==
    {Req("GET /v1/healthcheck", <<>>, NoBody),
     Req("GET /v1/healthcheck", <<"Bearer">>, NoBody),
     Req("GET /v1/movies", <<>>, NoBody),
     Req("GET /v1/nowhere", <<>>, NoBody),
     Req("OPTIONS /v1/healthcheck", <<>>, NoBody)}

\* The requests of SpecRate: one client asking for the health check.
RateRequests == {Req("GET /v1/healthcheck", <<>>, NoBody)}

ClientIP == "10.0.0.1"

\* ---- the token bucket of golang.org/x/time/rate -----------------------------
Min(a, b) == IF a < b THEN a ELSE b

\* &client{limiter: rate.NewLimiter(rps, burst)}: a full bucket.
NewClient(cfg, t) == [tokens |-> cfg.burst, last |-> t, lastSeen |-> t]

\* limiter.Allow() at time t: the bucket gains rate tokens per tick up to
\* burst; one token is taken when one is there.
Allow(c, cfg, t) ==
    LET avail == Min(cfg.burst, c.tokens + cfg.rate * (t - c.last))
    IN IF avail >= 1
       THEN [ok |-> TRUE, client |-> [c EXCEPT !.tokens = avail - 1, !.last = t]]
       ELSE [ok |-> FALSE, client |-> c]

\* ---- one request ------------------------------------------------------------
NoLookup == [scope |-> "", plaintext |-> <<>>, err |-> "", user |-> AnonymousUser]

NoFacts == [anon |-> FALSE, activated |-> FALSE, permitted |-> FALSE]

IdlePReq ==
    [pc |-> "idle", req |-> Req("", <<>>, NoBody), corsNext |-> 0,
     ctx |-> NoCtx, resp |-> NoResp, panicking |-> FALSE, panicked |-> FALSE,
     allowed |-> FALSE, nextCalled |-> FALSE, tokenLookups |-> 0,
     lookup |-> NoLookup, permLookups |-> 0, handlerRan |-> FALSE,
     gateFacts |-> NoFacts, revokedAtStart |-> {}, afterPanic |-> FALSE,
     actUser |-> AnonymousUser, ip |-> ""]

\* The status codes the service writes.
Statuses ==
    {StatusOK, StatusCreated, StatusBadRequest, StatusUnauthorized,
     StatusForbidden, StatusNotFound, StatusConflict, StatusUnprocessableEntity,
     StatusTooManyRequests, StatusInternalServerError}

\* The users registered before the behaviour starts.
UserNames == <<"U1", "U2", "U3">>
UserEmails == <<"u1@x.com", "u2@x.com", "u3@x.com">>

\* The store as the earlier life of the service left it: user 1 is
\* activated, user 2 registered and not yet activated; both hold
\* "movies:read" (given at registration); user 1 and user 2 each hold an
\* authentication token, users 2 and 3 their activation tokens.
InitStore ==
    /\ users =
         [id \in {1, 2, 3} |->
            [name |-> UserNames[id], email |-> UserEmails[id],
             activated |-> (id = 1), version |-> 1]]
    /\ tokens =
         {[hash |-> Hash(<<"TA1">>), userID |-> 1, expiry |-> AuthExpiry,
           scope |-> ScopeAuthentication],
          [hash |-> Hash(<<"TA2">>), userID |-> 2, expiry |-> AuthExpiry,
           scope |-> ScopeAuthentication],
          [hash |-> Hash(<<"TV2">>), userID |-> 2, expiry |-> ActivationExpiry,
           scope |-> ScopActivation],
          [hash |-> Hash(<<"TV3">>), userID |-> 3, expiry |-> ActivationExpiry,
           scope |-> ScopActivation]}
    /\ permissions = [id \in {1, 2, 3} |-> {"movies:read"}]
    /\ now = 0

InitPipeProcs(cfg, procs) ==
    /\ InitStore
    /\ limiterCfg = cfg
    /\ clients = <<>>
    /\ mu = 0
    /\ preq = [p \in procs |-> IdlePReq]
    /\ reqCount = 0
    /\ counters = [received |-> 0, sent |-> 0, byStatus |-> [s \in Statuses |-> 0]]
    /\ revoked = {}
    /\ recovered = NoResp
    /\ admitted = [first |-> -1, seen |-> 0, count |-> 0]

InitPipe(cfg) == InitPipeProcs(cfg, ReqProcs)

Set(p, rec) == preq' = [preq EXCEPT ![p] = rec]

\* A handler or middleware wrote its response and returns: control goes
\* back up the chain to recoverPanic's deferred function.
Returning(r, resp) == [r EXCEPT !.pc = "return", !.resp = resp]

\* A panic unwinds the goroutine's stack up to recoverPanic's deferred
\* function.
Panicking(r) == [r EXCEPT !.pc = "return", !.panicking = TRUE, !.panicked = TRUE]

\* enableCORS's test of the Origin header, were any origin trusted.
OriginTrustedAny(origin) == origin # ""

\* enableCORS's test of the Origin header: equal to an entry of the list.
OriginTrusted(origin) ==
    origin # "" /\ \E i \in 1..Len(TrustedOrigins) : origin = TrustedOrigins[i]

\* enableCORS's test for a preflight, were the method enough.
IsPreflightAnyOptions(req) == IsOptions(req.route)

\* enableCORS's test for a preflight: OPTIONS with
\* Access-Control-Request-Method.
IsPreflight(req) == IsOptions(req.route) /\ req.acrm

\* enableCORS: the two Vary headers; Access-Control-Allow-Origin for a
\* trusted origin; for its preflight the two Allow headers and 200 without
\* calling next; otherwise next is called.
enableCORS(req, resp) ==
    LET varied == SetHeader(SetHeader(resp, "Vary: Origin"),
                            "Vary: Access-Control-Request-Method")
        allowed == [varied EXCEPT !.allowOrigin = req.origin]
    IN IF ~OriginTrusted(req.origin)
       THEN [next |-> TRUE, resp |-> varied]
       ELSE IF IsPreflight(req)
       THEN [next |-> FALSE,
             resp |-> WriteHeader(
                        SetHeader(SetHeader(allowed,
                            "Access-Control-Allow-Methods: OPTIONS, PUT, PATCH, DELETE"),
                            "Access-Control-Allow-Headers: Authorization, Content-Type"),
                        StatusOK)]
       ELSE [next |-> TRUE, resp |-> allowed]

\* metrics, entry half, and the two layers below it: a request arrives;
\* total_requests_received is incremented; recoverPanic installs its
\* deferred function; enableCORS answers the request or calls rateLimit.
metricsEnter(p, req, maxReqs) ==
    /\ preq[p].pc = "idle"
    /\ reqCount < maxReqs
    /\ reqCount' = reqCount + 1
    /\ counters' = [counters EXCEPT !.received = @ + 1]
    /\ LET cors == enableCORS(req, NoResp)
       IN Set(p, [IdlePReq EXCEPT
                    !.pc = IF cors.next THEN "rateLimit" ELSE "return",
                    !.corsNext = IF cors.next THEN 1 ELSE 0,
                    !.req = req,
                    !.resp = cors.resp,
                    !.revokedAtStart = revoked,
                    !.afterPanic = (recovered # NoResp)])
    /\ UNCHANGED <<storeVars, limiterCfg, clients, mu, revoked, recovered, admitted>>

\* rateLimit, under the mutex: look the client up, create it when new, set
\* lastSeen, ask the limiter.
rateLimitLocked(p) ==
    /\ preq[p].pc = "rateLimit"
    /\ IF ~limiterCfg.enabled
       THEN /\ Set(p, [preq[p] EXCEPT !.pc = "authenticate", !.allowed = TRUE])
            /\ UNCHANGED <<clients, mu, admitted>>
       ELSE /\ mu = 0
            /\ mu' = p
            /\ LET c == IF ClientIP \in DOMAIN clients THEN clients[ClientIP]
                        ELSE NewClient(limiterCfg, now)
                   a == Allow([c EXCEPT !.lastSeen = now], limiterCfg, now)
               IN /\ clients' = [ip \in DOMAIN clients \cup {ClientIP} |->
                                   IF ip = ClientIP THEN a.client ELSE clients[ip]]
                  /\ Set(p, [preq[p] EXCEPT !.pc = "rlUnlock", !.allowed = a.ok])
                  /\ admitted' =
                       [first |-> IF admitted.first < 0 THEN now ELSE admitted.first,
                        seen |-> admitted.seen + 1,
                        count |-> admitted.count + (IF a.ok THEN 1 ELSE 0)]
    /\ UNCHANGED <<storeVars, limiterCfg, reqCount, counters, revoked, recovered>>

\* rateLimit after the limiter's answer, were the 429 path to keep the
\* mutex.
rateLimitUnlockAdmittedOnly(p) ==
    /\ preq[p].pc = "rlUnlock"
    /\ mu = p
    /\ mu' = IF preq[p].allowed THEN 0 ELSE mu
    /\ IF preq[p].allowed
       THEN Set(p, [preq[p] EXCEPT !.pc = "authenticate"])
       ELSE Set(p, Returning(preq[p], rateLimitExceededResponse(preq[p].resp)))
    /\ UNCHANGED <<storeVars, limiterCfg, clients, reqCount, counters, revoked,
                   recovered, admitted>>

\* rateLimit after the limiter's answer, were the return after the 429
\* missing: the refused request is passed on as well.
rateLimitUnlockNoReturn(p) ==
    /\ preq[p].pc = "rlUnlock"
    /\ mu = p
    /\ mu' = 0
    /\ IF preq[p].allowed
       THEN Set(p, [preq[p] EXCEPT !.pc = "authenticate"])
       ELSE Set(p, [preq[p] EXCEPT !.pc = "authenticate",
                                   !.resp = rateLimitExceededResponse(preq[p].resp)])
    /\ UNCHANGED <<storeVars, limiterCfg, clients, reqCount, counters, revoked,
                   recovered, admitted>>

\* rateLimit, after the limiter's answer: unlock; 429, or call authenticate.
rateLimitUnlock(p) ==
    /\ preq[p].pc = "rlUnlock"
    /\ mu = p
    /\ mu' = 0
    /\ IF preq[p].allowed
       THEN Set(p, [preq[p] EXCEPT !.pc = "authenticate"])
       ELSE Set(p, Returning(preq[p], rateLimitExceededResponse(preq[p].resp)))
    /\ UNCHANGED <<storeVars, limiterCfg, clients, reqCount, counters, revoked,
                   recovered, admitted>>

\* The scope authenticate hands to GetForToken, were it the activation scope.
AuthenticateScopeActivation == ScopActivation

\* The scope authenticate hands to GetForToken.
AuthenticateScope == ScopeAuthentication

\* authenticate: the Vary header, the Authorization header, the token's
\* shape, GetForToken, and the call of the router, which dispatches.
authenticate(p) ==
    /\ preq[p].pc = "authenticate"
    /\ LET r == preq[p]
           resp == SetHeader(r.resp, "Vary: Authorization")
           header == r.req.header
           headerParts == Split(header)
           token == headerParts[2]
           found == GetForToken(tokens, users, AuthenticateScope, token, now)
       IN IF header = <<>>
          THEN Set(p, [r EXCEPT !.resp = resp, !.ctx = contextSetUser(AnonymousUser),
                                !.nextCalled = TRUE, !.pc = RouteEntry(r.req.route)])
          ELSE IF Len(headerParts) # 2 \/ headerParts[1] # <<"Bearer">>
          THEN Set(p, Returning(r, invalidAuthenticationTokenResponse(resp)))
          ELSE IF ~ValidateTokenPlaintext(token)
          THEN Set(p, Returning(r, invalidAuthenticationTokenResponse(resp)))
          ELSE IF found.err = "ErrRecordNotFound"
          THEN Set(p, [Returning(r, invalidAuthenticationTokenResponse(resp))
                         EXCEPT !.tokenLookups = @ + 1,
                                !.lookup = [scope |-> AuthenticateScope,
                                            plaintext |-> token, err |-> found.err,
                                            user |-> found.user]])
          ELSE Set(p, [r EXCEPT !.resp = resp, !.ctx = contextSetUser(found.user),
                                !.nextCalled = TRUE, !.pc = RouteEntry(r.req.route),
                                !.tokenLookups = @ + 1,
                                !.lookup = [scope |-> AuthenticateScope,
                                            plaintext |-> token, err |-> found.err,
                                            user |-> found.user]])
    /\ UNCHANGED <<storeVars, limiterCfg, clients, mu, reqCount, counters, revoked,
                   recovered, admitted>>

\* What is true of the request's user when the gate runs: the facts the
\* gate is meant to decide on (history, for the claims).
FactsAtGate(r) ==
    [anon |-> IsAnonymous(r.ctx.user),
     activated |-> r.ctx.user.activated,
     permitted |-> Include(GetAllForUser(permissions, users, r.ctx.user.id),
                           RequiredPermission(r.req.route))]

\* requirePermission(code, next), that is
\* requireAuthenticatedUser(requireActivatedUser(fn)): each of the three
\* layers starts with contextGetUser; the permission set is read from the
\* store in the innermost one.
requirePermission(p) ==
    /\ preq[p].pc = "gate"
    /\ LET r0 == preq[p]
           r == [r0 EXCEPT !.gateFacts = FactsAtGate(r0)]
           got == contextGetUser(r.ctx)
           user == got.user
           perms == GetAllForUser(permissions, users, user.id)
       IN IF ~got.ok
          THEN Set(p, Panicking(r))
          ELSE IF IsAnonymous(user)
          THEN Set(p, Returning(r, authenticationRequiredResponse(r.resp)))
          ELSE IF ~user.activated
          THEN Set(p, Returning(r, inactiveAccountResponse(r.resp)))
          ELSE IF ~Include(perms, RequiredPermission(r.req.route))
          THEN Set(p, [Returning(r, notPermittedResponse(r.resp))
                         EXCEPT !.permLookups = @ + 1])
          ELSE Set(p, [r EXCEPT !.pc = "handler", !.permLookups = @ + 1])
    /\ UNCHANGED <<storeVars, limiterCfg, clients, mu, reqCount, counters, revoked,
                   recovered, admitted>>

\* The handler the router found: healthcheckHandler, or the movie handler
\* behind the gate (its store work is the subject of SpecMovies).
handler(p) ==
    /\ preq[p].pc = "handler"
    /\ Set(p, [Returning(preq[p], writeJSON(preq[p].resp, StatusOK))
                 EXCEPT !.handlerRan = TRUE])
    /\ UNCHANGED <<storeVars, limiterCfg, clients, mu, reqCount, counters, revoked,
                   recovered, admitted>>

\* The router on an OPTIONS request to a path it has handlers for: it sets
\* the Allow header and writes nothing.
routerOptions(p) ==
    /\ preq[p].pc = "options"
    /\ Set(p, Returning(preq[p], SetHeader(preq[p].resp, "Allow: GET, OPTIONS")))
    /\ UNCHANGED <<storeVars, limiterCfg, clients, mu, reqCount, counters, revoked,
                   recovered, admitted>>

\* router.NotFound
notFound(p) ==
    /\ preq[p].pc = "notfound"
    /\ Set(p, Returning(preq[p], notFoundResponse(preq[p].resp)))
    /\ UNCHANGED <<storeVars, limiterCfg, clients, mu, reqCount, counters, revoked,
                   recovered, admitted>>

\* The scope activateUserHandler hands to GetForToken.
ActivateScope == ScopActivation

\* activateUserHandler, up to GetForToken: readJSON, ValidateTokenPlaintext,
\* the lookup with the activation scope, user.Activated = true.
activateUserHandlerLookup(p) ==
    /\ preq[p].pc = "activate"
    /\ LET r == [preq[p] EXCEPT !.handlerRan = TRUE]
           body == r.req.body
           found == GetForToken(tokens, users, ActivateScope, body.token, now)
           looked == [r EXCEPT !.tokenLookups = @ + 1,
                               !.lookup = [scope |-> ActivateScope,
                                           plaintext |-> body.token,
                                           err |-> found.err, user |-> found.user]]
       IN IF body.bad
          THEN Set(p, Returning(r, badRequestResponse(r.resp)))
          ELSE IF ~ValidateTokenPlaintext(body.token)
          THEN Set(p, Returning(r, failedValidationResponse(r.resp)))
          ELSE IF found.err = "ErrRecordNotFound"
          THEN Set(p, Returning(looked, failedValidationResponse(r.resp)))
          ELSE Set(p, [looked EXCEPT !.pc = "activateUpdate",
                                     !.actUser = [found.user EXCEPT !.activated = TRUE]])
    /\ UNCHANGED <<storeVars, limiterCfg, clients, mu, reqCount, counters, revoked,
                   recovered, admitted>>

\* activateUserHandler: Users.Update(user); 409 on ErrEditConflict.
activateUserHandlerUpdate(p) ==
    /\ preq[p].pc = "activateUpdate"
    /\ LET r == preq[p]
           u == UserModelUpdate(users, r.actUser)
       IN /\ users' = u.tbl
          /\ IF u.err = "ErrEditConflict"
             THEN Set(p, Returning(r, editConflictResponse(r.resp)))
             ELSE Set(p, [r EXCEPT !.pc = "activateDelete", !.actUser = u.user])
    /\ UNCHANGED <<tokens, permissions, now, limiterCfg, clients, mu, reqCount,
                   counters, revoked, recovered, admitted>>

\* activateUserHandler: Tokens.DeleteAllForUser(ScopActivation, user.ID),
\* then 200 with the user.
activateUserHandlerDelete(p) ==
    /\ preq[p].pc = "activateDelete"
    /\ tokens' = DeleteAllForUser(tokens, ScopActivation, preq[p].actUser.id)
    /\ Set(p, Returning(preq[p], writeJSON(preq[p].resp, StatusOK)))
    /\ UNCHANGED <<users, permissions, now, limiterCfg, clients, mu, reqCount,
                   counters, revoked, recovered, admitted>>

\* recoverPanic without its recover(): the panic leaves the handler chain,
\* net/http's connection goroutine logs it and drops the connection; the
\* client gets no response.
RecoveredResponseNone(resp) == resp

\* recoverPanic's deferred function on a panic: Connection: close, then
\* serverErrorResponse.
RecoveredResponse(resp) ==
    serverErrorResponse(SetHeader(resp, "Connection: close"))

\* recoverPanic: the deferred function runs when the inner chain returns
\* or panics; then control is back in metrics.
recoverPanic(p) ==
    /\ preq[p].pc = "return"
    /\ IF preq[p].panicking
       THEN /\ Set(p, [preq[p] EXCEPT !.pc = "metricsOut", !.panicking = FALSE,
                                      !.resp = RecoveredResponse(preq[p].resp)])
            /\ recovered' = RecoveredResponse(preq[p].resp)
       ELSE /\ Set(p, [preq[p] EXCEPT !.pc = "metricsOut"])
            /\ UNCHANGED recovered
    /\ UNCHANGED <<storeVars, limiterCfg, clients, mu, reqCount, counters, revoked,
                   admitted>>

\* metricsResponseWriter.statusCode after the chain returned: 200 from
\* newMetricsResponseWriter until the first WriteHeader.
ObservedStatus(resp) == IF resp.status = 0 THEN StatusOK ELSE resp.status

\* metrics after next.ServeHTTP, were the per-status counter left out.
CountResponseSentOnly(c, status) == [c EXCEPT !.sent = @ + 1]

\* metrics after next.ServeHTTP: totalResponsesSent.Add(1) and
\* totalResponsesSentByStatus.Add(status, 1).
CountResponse(c, status) ==
    [c EXCEPT !.sent = @ + 1, !.byStatus[status] = @ + 1]

\* metrics, exit half: total_responses_sent and the counter of the status
\* are incremented and the goroutine is free for the next request.
metricsExit(p) ==
    /\ preq[p].pc = "metricsOut"
    /\ counters' = CountResponse(counters, ObservedStatus(preq[p].resp))
    /\ Set(p, IdlePReq)
    /\ UNCHANGED <<storeVars, limiterCfg, clients, mu, reqCount, revoked, recovered, admitted>>

\* ---- the environment ---------------------------------------------------------
\* Time passes.
Tick(horizon) ==
    /\ now < horizon
    /\ now' = now + 1
    /\ UNCHANGED <<users, tokens, permissions, limiterCfg, clients, mu, preq,
                   reqCount, counters, revoked, recovered, admitted>>

\* An operator deletes a row of users_permissions.
RevokePermission(u, code) ==
    /\ code \in permissions[u]
    /\ permissions' = [permissions EXCEPT ![u] = @ \ {code}]
    /\ revoked' = revoked \cup {<<u, code>>}
    /\ UNCHANGED <<users, tokens, now, limiterCfg, clients, mu, preq, reqCount,
                   counters, recovered, admitted>>

NextPipe ==
    \/ \E p \in ReqProcs :
          \/ \E req \in Requests : metricsEnter(p, req, MaxReqs)
          \/ rateLimitLocked(p)
          \/ rateLimitUnlock(p)
          \/ authenticate(p)
          \/ requirePermission(p)
          \/ handler(p)
          \/ notFound(p)
          \/ activateUserHandlerLookup(p)
          \/ activateUserHandlerUpdate(p)
          \/ activateUserHandlerDelete(p)
          \/ recoverPanic(p)
          \/ metricsExit(p)
    \/ Tick(MaxTime)
    \/ RevokePermission(1, "movies:read")

\* rateLimit's background goroutine: once a minute, under the mutex, it
\* deletes the clients last seen more than three minutes ago.
sweep ==
    /\ mu = 0
    /\ \E ip \in DOMAIN clients : now - clients[ip].lastSeen > SweepIdle
    /\ clients' = [ip \in {i \in DOMAIN clients :
                              ~(now - clients[i].lastSeen > SweepIdle)} |->
                     clients[ip]]
    /\ UNCHANGED <<storeVars, limiterCfg, mu, preq, reqCount, counters, revoked,
                   recovered, admitted>>

NextAuth ==
    \/ \E p \in ReqProcs :
          \/ \E req \in AuthRequests : metricsEnter(p, req, MaxReqs)
          \/ rateLimitLocked(p)
          \/ rateLimitUnlock(p)
          \/ authenticate(p)
          \/ handler(p)
          \/ recoverPanic(p)
          \/ metricsExit(p)
    \/ Tick(MaxTime)

NextTokens ==
    \/ \E p \in ReqProcs :
          \/ \E req \in TokenRequests : metricsEnter(p, req, MaxReqs)
          \/ rateLimitLocked(p)
          \/ rateLimitUnlock(p)
          \/ authenticate(p)
          \/ handler(p)
          \/ activateUserHandlerLookup(p)
          \/ activateUserHandlerUpdate(p)
          \/ activateUserHandlerDelete(p)
          \/ recoverPanic(p)
          \/ metricsExit(p)
    \/ Tick(MaxTime)

NextPanic ==
    \/ \E p \in ReqProcs :
          \/ \E req \in PanicRequests : metricsEnter(p, req, MaxReqs)
          \/ rateLimitLocked(p)
          \/ rateLimitUnlock(p)
          \/ authenticate(p)
          \/ requirePermission(p)
          \/ handler(p)
          \/ recoverPanic(p)
          \/ metricsExit(p)
    \/ Tick(MaxTime)

NextMetrics ==
    \/ \E p \in ReqProcs :
          \/ \E req \in MetricsRequests : metricsEnter(p, req, MaxReqs)
          \/ rateLimitLocked(p)
          \/ rateLimitUnlock(p)
          \/ authenticate(p)
          \/ requirePermission(p)
          \/ handler(p)
          \/ routerOptions(p)
          \/ notFound(p)
          \/ recoverPanic(p)
          \/ metricsExit(p)
    \/ Tick(MaxTime)

NextCORS ==
    \/ \E p \in ReqProcs :
          \/ \E req \in CORSRequests : metricsEnter(p, req, MaxReqs)
          \/ rateLimitLocked(p)
          \/ rateLimitUnlock(p)
          \/ authenticate(p)
          \/ handler(p)
          \/ routerOptions(p)
          \/ recoverPanic(p)
          \/ metricsExit(p)
    \/ Tick(MaxTime)

NextRate ==
    \/ \E p \in ReqProcs :
          \/ \E req \in RateRequests : metricsEnter(p, req, MaxRateReqs)
          \/ rateLimitLocked(p)
          \/ rateLimitUnlock(p)
          \/ authenticate(p)
          \/ handler(p)
          \/ recoverPanic(p)
          \/ metricsExit(p)
    \/ Tick(MaxRateTime)
    \/ sweep

(***************************************************************************)
(* Registration: registerUserHandler, UserModel.Insert, TokenModel.New     *)
(* and the email task handed to background().                              *)
(***************************************************************************)
\* len(name) of the names requests carry.
NameBytes(name) ==
    CASE name = "" -> 0
      [] name = "Ann" -> 3
      [] name = "Ann B" -> 5
      [] name = "Bob" -> 3
      [] name = "LongName" -> MaxNameBytes + 1

\* validator.Matches(email, validator.EmailRX) on the emails requests carry.
EmailRXMatches(email) ==
    email \in {"ann@x.com", "bob@x.com", "u1@x.com", "u2@x.com", "u3@x.com"}

\* len(password) of the passwords requests carry.
PasswordBytes(password) ==
    CASE password = "" -> 0
      [] password = "short" -> 5
      [] password = "pa55word12" -> 10

\* ValidatePasswordPlaintext: the keys it adds to the validator.
ValidatePasswordPlaintext(password) ==
    IF \/ password = ""
       \/ PasswordBytes(password) < MinPasswordBytes
       \/ PasswordBytes(password) > MaxPasswordBytes
    THEN {"password"} ELSE {}

\* ValidateEmail: the keys it adds to the validator.
ValidateEmail(email) ==
    IF email = "" \/ ~EmailRXMatches(email) THEN {"email"} ELSE {}

\* ValidateUser: the keys of v.Errors after the checks.
ValidateUser(user) ==
    (IF user.name = "" \/ NameBytes(user.name) > MaxNameBytes
     THEN {"name"} ELSE {})
    \cup ValidateEmail(user.email)
    \cup ValidatePasswordPlaintext(user.password)

\* The unique constraint users_email_key: no row carries this email yet.
UsersEmailKey(tbl, email) == \A id \in DOMAIN tbl : tbl[id].email # email

\* UserModel.Insert without the unique constraint on email.
UserModelInsertNoUnique(tbl, nextID, user) ==
    [tbl |-> [id \in DOMAIN tbl \cup {nextID} |->
                IF id = nextID
                THEN [name |-> user.name, email |-> user.email,
                      activated |-> user.activated, version |-> 1]
                ELSE tbl[id]],
     err |-> "nil",
     user |-> [user EXCEPT !.id = nextID, !.version = 1]]

\* UserModel.Insert: INSERT INTO users (name, email, password_hash,
\* activated) ... RETURNING id, created_at, version; the violation of
\* users_email_key comes back as ErrDuplicateEmail and adds no row.
UserModelInsert(tbl, nextID, user) ==
    IF UsersEmailKey(tbl, user.email)
    THEN [tbl |-> [id \in DOMAIN tbl \cup {nextID} |->
                     IF id = nextID
                     THEN [name |-> user.name, email |-> user.email,
                           activated |-> user.activated, version |-> 1]
                     ELSE tbl[id]],
          err |-> "nil",
          user |-> [user EXCEPT !.id = nextID, !.version = 1]]
    ELSE [tbl |-> tbl, err |-> "ErrDuplicateEmail", user |-> user]

\* PermissionModel.AddForUser: the codes are joined to the user.
AddForUser(perms, userID, codes) ==
    [id \in DOMAIN perms \cup {userID} |->
        IF id = userID
        THEN (IF id \in DOMAIN perms THEN perms[id] ELSE {}) \cup codes
        ELSE perms[id]]

\* rand.Text(): the n-th text drawn from crypto/rand, 26 bytes, different
\* from every text drawn before and from every token in the store.
FreshTexts == <<"TN1", "TN2", "TN3", "TN4", "TN5", "TN6">>
RandText(n) == <<FreshTexts[n]>>

\* generateToken with the ttl left out of the expiry.
generateTokenNoTTL(userID, ttl, scope, t, plaintext) ==
    [plaintext |-> plaintext, hash |-> Hash(plaintext), userID |-> userID,
     expiry |-> t, scope |-> scope]

\* generateToken: Plaintext from rand.Text(), Expiry = time.Now().Add(ttl),
\* Hash = sha256 of the plaintext.
generateToken(userID, ttl, scope, t, plaintext) ==
    [plaintext |-> plaintext, hash |-> Hash(plaintext), userID |-> userID,
     expiry |-> t + ttl, scope |-> scope]

\* TokenModel.Insert: INSERT INTO tokens (hash, user_id, expiry, scope).
\* hash is the primary key and user_id references users; the statement runs
\* under a 3-second context, whose expiry is the argument timedOut.
TokenModelInsert(tkns, tbl, token, timedOut) ==
    IF \/ timedOut
       \/ token.userID \notin DOMAIN tbl
       \/ \E row \in tkns : row.hash = token.hash
    THEN [tkns |-> tkns, err |-> "error"]
    ELSE [tkns |-> tkns \cup {[hash |-> token.hash, userID |-> token.userID,
                               expiry |-> token.expiry, scope |-> token.scope]},
          err |-> "nil"]

\* TokenModel.New: token := generateToken(...); err := m.Insert(token);
\* return token, err.
TokenModelNew(tkns, tbl, userID, ttl, scope, t, plaintext, timedOut) ==
    LET token == generateToken(userID, ttl, scope, t, plaintext)
        ins == TokenModelInsert(tkns, tbl, token, timedOut)
    IN [token |-> token, err |-> ins.err, tkns |-> ins.tkns]

\* A nil *Token.
NilToken ==
    [plaintext |-> <<>>, hash |-> Hash(<<>>), userID |-> 0, expiry |-> 0,
     scope |-> ""]

\* ---- the requests ----------------------------------------------------------
RegBody(name, email, password) ==
    [bad |-> FALSE, name |-> name, email |-> email, password |-> password]

BadRegBody == [bad |-> TRUE, name |-> "", email |-> "", password |-> ""]

\* Bodies of POST /v1/users: two registrations for one email, one for the
\* email of user 1, one that fails every validation, and no JSON at all.
RegInputs ==
    {RegBody("Ann", "ann@x.com", "pa55word12"),
     RegBody("Ann B", "ann@x.com", "pa55word12"),
     RegBody("Bob", "u1@x.com", "pa55word12"),
     RegBody("", "ann.x.com", "short"),
     BadRegBody}

\* Bodies of POST /v1/users in SpecShutdown.
ShutdownRegInputs ==
    {RegBody("Ann", "ann@x.com", "pa55word12"),
     RegBody("Bob", "bob@x.com", "pa55word12")}

NoUser ==
    [id |-> 0, name |-> "", email |-> "", password |-> "", activated |-> FALSE,
     version |-> 0]

\* writes counts the calls of writeJSON for the request.
NoRegResp == [status |-> 0, user |-> NoUser, errors |-> {}, writes |-> 0]

IdleUReq ==
    [pc |-> "idle", in |-> BadRegBody, user |-> NoUser, token |-> NilToken,
     issuedAt |-> 0, resp |-> NoRegResp, err |-> "nil"]

\* No access to rateLimit's map yet.
NoAccess == [by |-> 0, heldBy |-> 0, before |-> <<>>, at |-> 0]

InitApp ==
    /\ nextUserID = 4
    /\ ureq = [p \in Procs |-> IdleUReq]
    /\ ucalls = 0
    /\ entropy = 0
    /\ accepted = {}
    /\ wg = 0
    /\ tasks = <<>>
    /\ mainPc = "listen"
    /\ shutPc = "signal"
    /\ exited = FALSE
    /\ tnew = [calls |-> 0, timedOut |-> FALSE, before |-> {}, token |-> NilToken,
               err |-> "nil"]
    /\ dcall = [fn |-> "none"]
    /\ sweeper = [pc |-> "sleep", wake |-> 1]
    /\ access = NoAccess

\* The handler of goroutine p answers: the response is written and the
\* goroutine is free for the next request.
RegAnswer(p, r, status, user, errors) ==
    ureq' = [ureq EXCEPT ![p] =
               [r EXCEPT !.pc = "idle",
                         !.resp = [status |-> status, user |-> user,
                                   errors |-> errors, writes |-> 1]]]

\* background(fn): wg.Add(1), then the goroutine is started.
background(fn) ==
    /\ wg' = wg + 1
    /\ tasks' = Append(tasks, [state |-> "running", fn |-> fn])

\* registerUserHandler up to the Insert: readJSON (400), the User with
\* Activated false, Password.Set, ValidateUser (422).
registerUserHandler(p, in) ==
    /\ ~exited
    /\ shutPc = "signal"
    /\ ureq[p].pc = "idle"
    /\ ucalls < MaxRegs
    /\ ucalls' = ucalls + 1
    /\ LET user == [id |-> 0, name |-> in.name, email |-> in.email,
                    password |-> in.password, activated |-> FALSE, version |-> 0]
           r == [IdleUReq EXCEPT !.in = in]
       IN IF in.bad
          THEN RegAnswer(p, r, StatusBadRequest, NoUser, {})
          ELSE IF ValidateUser(user) # {}
          THEN RegAnswer(p, r, StatusUnprocessableEntity, NoUser, ValidateUser(user))
          ELSE ureq' = [ureq EXCEPT ![p] = [r EXCEPT !.pc = "insert", !.user = user]]
    /\ UNCHANGED <<storeVars, nextUserID, entropy, accepted, bgVars>>

\* registerUserHandler: Users.Insert; ErrDuplicateEmail gives 422 with the
\* error under "email".  The sequence behind users.id moves on either way.
registerUserHandlerInsert(p) ==
    /\ ~exited
    /\ ureq[p].pc = "insert"
    /\ LET ins == UserModelInsert(users, nextUserID, ureq[p].user)
       IN /\ users' = ins.tbl
          /\ nextUserID' = nextUserID + 1
          /\ IF ins.err = "ErrDuplicateEmail"
             THEN RegAnswer(p, ureq[p], StatusUnprocessableEntity, NoUser, {"email"})
             ELSE ureq' = [ureq EXCEPT ![p].pc = "permission", ![p].user = ins.user]
    /\ UNCHANGED <<tokens, permissions, now, ucalls, entropy, accepted, bgVars>>

\* registerUserHandler: Permissions.AddForUser(user.ID, "movies:read").
registerUserHandlerPermission(p) ==
    /\ ~exited
    /\ ureq[p].pc = "permission"
    /\ permissions' = AddForUser(permissions, ureq[p].user.id, {"movies:read"})
    /\ ureq' = [ureq EXCEPT ![p].pc = "token"]
    /\ UNCHANGED <<users, tokens, now, nextUserID, ucalls, entropy, accepted, bgVars>>

\* registerUserHandler: Tokens.New(user.ID, 3*24*time.Hour, ScopActivation);
\* 500 when it returns an error.  timedOut: the INSERT's 3-second context
\* expired.
registerUserHandlerTokenStep(p, timedOut) ==
    /\ ~exited
    /\ ureq[p].pc = "token"
    /\ entropy < Len(FreshTexts)
    /\ entropy' = entropy + 1
    /\ LET new == TokenModelNew(tokens, users, ureq[p].user.id, ActivationTTL,
                                ScopActivation, now, RandText(entropy + 1), timedOut)
       IN /\ tokens' = new.tkns
          /\ IF new.err # "nil"
             THEN RegAnswer(p, ureq[p], StatusInternalServerError, NoUser, {})
             ELSE ureq' = [ureq EXCEPT ![p].pc = "respond", ![p].token = new.token,
                                       ![p].issuedAt = now]
    /\ UNCHANGED <<users, permissions, now, nextUserID, ucalls, accepted, bgVars>>

\* The same with a store that answers in time.
registerUserHandlerToken(p) == registerUserHandlerTokenStep(p, FALSE)

\* registerUserHandler: background(the welcome email with token.Plaintext
\* and user.ID, to user.Email), then err = writeJSON(202 with the user).
\* The closure handed to background() captures the handler's variable err.
registerUserHandlerRespond(p) ==
    /\ ~exited
    /\ ureq[p].pc = "respond"
    /\ background([to |-> ureq[p].user.email,
                   activationToken |-> ureq[p].token.plaintext,
                   userID |-> ureq[p].user.id])
    /\ ureq' = [ureq EXCEPT ![p].pc = "errCheck",
                            ![p].err = "nil",
                            ![p].resp = [status |-> StatusAccepted,
                                         user |-> ureq[p].user, errors |-> {},
                                         writes |-> 1]]
    /\ accepted' = accepted \cup {[email |-> ureq[p].user.email,
                                   id |-> ureq[p].user.id]}
    /\ UNCHANGED <<storeVars, nextUserID, ucalls, entropy>>

\* registerUserHandler: "if err != nil" after writeJSON; a non-nil err
\* makes the handler call serverErrorResponse, a second writeJSON on a
\* response whose 202 header is out.
registerUserHandlerErrCheck(p) ==
    /\ ~exited
    /\ ureq[p].pc = "errCheck"
    /\ ureq' = [ureq EXCEPT ![p].pc = "idle",
                            ![p].resp.writes =
                               IF ureq[p].err # "nil" THEN @ + 1 ELSE @]
    /\ UNCHANGED <<storeVars, nextUserID, ucalls, entropy, accepted, bgVars>>

\* The closure's "err = app.mailer.Send(...)": the assignment goes to the
\* variable of the handler that started the task, which that handler reads
\* while it is between writeJSON and its return.
SendAssigns(t, e) ==
    [p \in DOMAIN ureq |->
        IF ureq[p].pc = "errCheck" /\ ureq[p].user.id = tasks[t].fn.userID
        THEN [ureq[p] EXCEPT !.err = e]
        ELSE ureq[p]]

\* What mailer.Send returns.
SendResults == {"nil", "send failed"}

\* The goroutine of background(), fn returning: mailer.Send returned and its
\* result went to err; the deferred recover finds nothing, the deferred
\* wg.Done() runs.
taskReturn(t) ==
    /\ ~exited
    /\ t \in DOMAIN tasks
    /\ tasks[t].state = "running"
    /\ tasks' = [tasks EXCEPT ![t].state = "returned"]
    /\ wg' = wg - 1
    /\ \E e \in SendResults : ureq' = SendAssigns(t, e)
    /\ UNCHANGED <<storeVars, nextUserID, ucalls, entropy, accepted>>

\* A panicking task whose goroutine ends without wg.Done().
taskPanicNoDone(t) ==
    /\ ~exited
    /\ t \in DOMAIN tasks
    /\ tasks[t].state = "running"
    /\ tasks' = [tasks EXCEPT ![t].state = "recovered"]
    /\ UNCHANGED <<wg, storeVars, userVars>>

\* The goroutine of background(), fn panicking: the deferred recover takes
\* the panic and logs it, the deferred wg.Done() runs.
taskPanic(t) ==
    /\ ~exited
    /\ t \in DOMAIN tasks
    /\ tasks[t].state = "running"
    /\ tasks' = [tasks EXCEPT ![t].state = "recovered"]
    /\ wg' = wg - 1
    /\ UNCHANGED <<storeVars, userVars>>

\* The clock moves while registrations run.
TickUsers ==
    /\ now < MaxTime
    /\ now' = now + 1
    /\ UNCHANGED <<users, tokens, permissions, userVars, bgVars>>

NextUsers ==
    \/ \E p \in Procs :
          \/ \E in \in RegInputs : registerUserHandler(p, in)
          \/ registerUserHandlerInsert(p)
          \/ registerUserHandlerPermission(p)
          \/ registerUserHandlerToken(p)
          \/ registerUserHandlerRespond(p)
          \/ registerUserHandlerErrCheck(p)
    \/ \E t \in 1..MaxRegs : taskReturn(t)
    \/ TickUsers

\* Registrations against a store whose INSERT into tokens may time out.
NextRegFault ==
    \/ \E p \in Procs :
          \/ \E in \in RegInputs : registerUserHandler(p, in)
          \/ registerUserHandlerInsert(p)
          \/ registerUserHandlerPermission(p)
          \/ \E timedOut \in BOOLEAN : registerUserHandlerTokenStep(p, timedOut)
          \/ registerUserHandlerRespond(p)
          \/ registerUserHandlerErrCheck(p)
    \/ \E t \in 1..MaxRegs : taskReturn(t)
    \/ \E t \in 1..MaxRegs : taskPanic(t)

(***************************************************************************)
(* serve(): the calling goroutine in ListenAndServe, the goroutine that    *)
(* waits for SIGINT or SIGTERM, and the end of the process.                *)
(***************************************************************************)
HandlersIdle == \A p \in Procs : ureq[p].pc = "idle"

Returned == {"returnedNil", "returnedErr"}

\* ListenAndServe fails before a request is served (the port is taken):
\* serve returns the error.
listenAndServeFails ==
    /\ ~exited
    /\ mainPc = "listen"
    /\ shutPc = "signal"
    /\ ucalls = 0
    /\ mainPc' = "returnedErr"
    /\ UNCHANGED <<shutPc, exited, storeVars, userVars, bgVars>>

\* The signal arrives and the goroutine calls srv.Shutdown: the listeners
\* close, ListenAndServe returns ErrServerClosed and the caller goes on to
\* receive from shutdownError.
signalShutdown ==
    /\ ~exited
    /\ shutPc = "signal"
    /\ mainPc = "listen"
    /\ shutPc' = "shutdown"
    /\ mainPc' = "recv"
    /\ UNCHANGED <<exited, storeVars, userVars, bgVars>>

\* srv.Shutdown returns nil: every connection is idle.
shutdownReturnsNil ==
    /\ ~exited
    /\ shutPc = "shutdown"
    /\ HandlersIdle
    /\ shutPc' = "wait"
    /\ UNCHANGED <<mainPc, exited, storeVars, userVars, bgVars>>

\* srv.Shutdown returns an error (the 30-second context ran out, or a
\* listener failed to close): shutdownError <- err is received by the
\* caller, serve returns err; the goroutine goes on to wg.Wait().
shutdownReturnsErr ==
    /\ ~exited
    /\ shutPc = "shutdown"
    /\ mainPc = "recv"
    /\ shutPc' = "wait"
    /\ mainPc' = "returnedErr"
    /\ UNCHANGED <<exited, storeVars, userVars, bgVars>>

\* app.wg.Wait() returns: the counter is zero.
wgWait ==
    /\ ~exited
    /\ shutPc = "wait"
    /\ wg = 0
    /\ shutPc' = "sendNil"
    /\ UNCHANGED <<mainPc, exited, storeVars, userVars, bgVars>>

\* shutdownError <- nil is received by the caller: serve returns nil.
sendNil ==
    /\ ~exited
    /\ shutPc = "sendNil"
    /\ mainPc = "recv"
    /\ shutPc' = "done"
    /\ mainPc' = "returnedNil"
    /\ UNCHANGED <<exited, storeVars, userVars, bgVars>>

\* main() after serve returned: os.Exit(1) on an error, the end of main
\* otherwise.  Every goroutine ends with the process.
exit ==
    /\ ~exited
    /\ mainPc \in Returned
    /\ exited' = TRUE
    /\ UNCHANGED <<mainPc, shutPc, storeVars, userVars, bgVars>>

\* A step of a background goroutine that ends its task.
taskEnd == \E t \in 1..MaxRegs : taskReturn(t) \/ taskPanic(t)

NextShutdown ==
    \/ \E p \in ReqProcs :
          \/ \E in \in ShutdownRegInputs :
                registerUserHandler(p, in) /\ UNCHANGED serveVars
          \/ registerUserHandlerInsert(p) /\ UNCHANGED serveVars
          \/ registerUserHandlerPermission(p) /\ UNCHANGED serveVars
          \/ registerUserHandlerToken(p) /\ UNCHANGED serveVars
          \/ registerUserHandlerRespond(p) /\ UNCHANGED serveVars
          \/ registerUserHandlerErrCheck(p) /\ UNCHANGED serveVars
    \/ \E t \in 1..MaxRegs : taskReturn(t) /\ UNCHANGED serveVars
    \/ \E t \in 1..MaxRegs : taskPanic(t) /\ UNCHANGED serveVars
    \/ listenAndServeFails
    \/ signalShutdown
    \/ shutdownReturnsNil
    \/ shutdownReturnsErr
    \/ wgWait
    \/ sendNil
    \/ exit

(***************************************************************************)
(* TokenModel.New called on its own, against a store that can fail.        *)
(***************************************************************************)
\* The user ids New is called with: a user of the store and an id that no
\* row of users carries.
NewUserIDs == {2, 9}

tokenModelNew(userID, ttl, scope, timedOut) ==
    /\ tnew.calls < MaxNewCalls
    /\ entropy < Len(FreshTexts)
    /\ entropy' = entropy + 1
    /\ LET new == TokenModelNew(tokens, users, userID, ttl, scope, now,
                                RandText(entropy + 1), timedOut)
       IN /\ tokens' = new.tkns
          /\ tnew' = [calls |-> tnew.calls + 1, timedOut |-> timedOut,
                      before |-> tokens, token |-> new.token, err |-> new.err]
    /\ UNCHANGED <<users, permissions, now, nextUserID, ureq, ucalls, accepted,
                   bgVars, serveVars>>

TickNew ==
    /\ now < MaxTime
    /\ now' = now + 1
    /\ UNCHANGED <<users, tokens, permissions, userVars, bgVars, serveVars, tnew>>

NextTokenNew ==
    \/ \E userID \in NewUserIDs, ttl \in {1, ActivationTTL},
          scope \in {ScopActivation, ScopeAuthentication}, timedOut \in BOOLEAN :
          tokenModelNew(userID, ttl, scope, timedOut)
    \/ TickNew

(***************************************************************************)
(* The handlers that validate a body before they write: POST /v1/movies,   *)
(* PATCH /v1/movies/:id, POST /v1/users and PUT /v1/users/activated.       *)
(***************************************************************************)
\* The requests of SpecValidation to PUT /v1/users/activated.
ActivationRequests ==
    {Req("PUT /v1/users/activated", <<>>, b) :
        b \in {a \in ActivationBodies : ~a.bad}}

\* Bodies of POST /v1/movies in SpecValidation: a valid movie, one that
\* fails two checks, and no JSON.
ValCreateInputs ==
    {in \in CreateInputs :
        \/ in.bad
        \/ in.title = TitleA /\ in.year = 1999
        \/ in.title = EmptyTitle /\ in.year = MinYear - 1}

\* Bodies of PATCH /v1/movies/:id in SpecValidation: a valid title, and a
\* runtime and genres that fail.
ValPatchInputs ==
    {in \in PatchInputs :
        /\ ~in.bad
        /\ \/ in.title = Some(TitleB) /\ in.runtime = None /\ in.genres = None
           \/ in.title = None /\ in.runtime = Some(0) /\ in.genres = Some(GenresDup)}

\* Bodies of POST /v1/users in SpecValidation: a new email, the email of
\* user 1, and a body that fails every check.
ValRegInputs == {in \in RegInputs : ~in.bad /\ in.name # "Ann B"}

NextValidation ==
    /\ \/ /\ \E p \in ReqProcs :
                \/ \E in \in ValCreateInputs : createMovieHandler(p, in)
                \/ \E id \in {1} : updateMovieHandlerGet(p, id)
                \/ \E in \in ValPatchInputs : updateMovieHandlerWrite(p, in)
          /\ UNCHANGED <<pipeVars, appVars>>
       \/ /\ \E p \in ReqProcs :
                \/ \E in \in ValRegInputs : registerUserHandler(p, in)
                \/ registerUserHandlerInsert(p)
                \/ registerUserHandlerPermission(p)
                \/ registerUserHandlerToken(p)
                \/ registerUserHandlerRespond(p)
                \/ registerUserHandlerErrCheck(p)
          /\ UNCHANGED <<movieVars, chainVars, serveVars, callVars, limVars>>
       \/ /\ \E p \in ReqProcs :
                \/ \E req \in ActivationRequests : metricsEnter(p, req, MaxValReqs)
                \/ rateLimitLocked(p)
                \/ rateLimitUnlock(p)
                \/ authenticate(p)
                \/ activateUserHandlerLookup(p)
                \/ activateUserHandlerUpdate(p)
                \/ activateUserHandlerDelete(p)
                \/ recoverPanic(p)
                \/ metricsExit(p)
          /\ UNCHANGED <<movieVars, appVars>>
    /\ mcalls' + ucalls' + reqCount' <= MaxValReqs

(***************************************************************************)
(* Filters: the sort safelist, and MovieModel called directly.             *)
(***************************************************************************)
\* A sort value is a sequence of pieces of text; "-" is the one byte that
\* strings.TrimPrefix and strings.HasPrefix look for.
SortValues ==
    {<<"id">>, <<"-", "id">>, <<"title">>, <<"-", "title">>, <<"year">>,
     <<"-", "year">>, <<"ID">>, <<"-">>, <<>>, <<"-", "-", "id">>,
     <<"id; DROP TABLE movies">>}

\* The safelists a handler may pass: the list of the movies resource, a
\* list with descending values only, and no list.
SortSafelists ==
    {<<<<"id">>, <<"title">>, <<"year">>, <<"-", "id">>, <<"-", "title">>,
       <<"-", "year">>>>,
     <<<<"-", "id">>, <<"-">>>>,
     <<>>}

\* The page and page_size values requests carry.
PageValues == {0, 1, MaxPage + 1}
PageSizeValues == {0, 20, MaxPageSize + 1}

FiltersInputs ==
    [page : PageValues, pageSize : PageSizeValues, sort : SortValues,
     sortSafelist : SortSafelists]

\* strings.HasPrefix(s, "-")
HasPrefixDash(s) == s # <<>> /\ Head(s) = "-"

\* strings.TrimPrefix(s, "-")
TrimPrefixDash(s) == IF HasPrefixDash(s) THEN Tail(s) ELSE s

\* validator.PermittedValue: slices.Contains(permittedValues, value)
PermittedValue(value, permittedValues) ==
    \E i \in 1..Len(permittedValues) : permittedValues[i] = value

\* sortColumn without the panic: the trimmed Sort whatever it is.
sortColumnNoPanic(f) == [panic |-> FALSE, column |-> TrimPrefixDash(f.sort)]

\* Filters.sortColumn: the Sort value without its "-" when it equals an
\* entry of the safelist, a panic otherwise.
sortColumn(f) ==
    IF \E i \in 1..Len(f.sortSafelist) : f.sort = f.sortSafelist[i]
    THEN [panic |-> FALSE, column |-> TrimPrefixDash(f.sort)]
    ELSE [panic |-> TRUE, column |-> <<>>]

\* Filters.sortDirection
sortDirection(f) == IF HasPrefixDash(f.sort) THEN "DESC" ELSE "ASC"

\* ValidateFilters: the keys of v.Errors after the checks.
ValidateFilters(f) ==
    (IF f.page > 0 /\ f.page <= MaxPage THEN {} ELSE {"page"})
    \cup (IF f.pageSize > 0 /\ f.pageSize <= MaxPageSize THEN {} ELSE {"page_size"})
    \cup (IF PermittedValue(f.sort, f.sortSafelist) THEN {} ELSE {"sort"})

\* MovieModel.GetAll up to QueryContext: fmt.Sprintf evaluates sortColumn()
\* and sortDirection() to build the ORDER BY clause; a panic of sortColumn
\* leaves GetAll before any statement is sent.
GetAllQuery(f) ==
    LET col == sortColumn(f)
    IN IF col.panic
       THEN [panic |-> TRUE, stmt |-> FALSE, column |-> <<>>, direction |-> ""]
       ELSE [panic |-> FALSE, stmt |-> TRUE, column |-> col.column,
             direction |-> sortDirection(f)]

\* MovieModel.GetAll called with any Filters value.
movieModelGetAll(f) ==
    /\ dcall' = [fn |-> "GetAll", filters |-> f, errors |-> ValidateFilters(f),
                 query |-> GetAllQuery(f)]
    /\ UNCHANGED <<movieVars, pipeVars, userVars, bgVars, serveVars, tnew, limVars>>

\* The ids MovieModel.Get and MovieModel.Delete are called with.
ModelIDs == (0 - 1)..MaxMovieID

\* MovieModel.Get(id) called directly.
movieModelGet(id) ==
    /\ LET r == MovieModelGet(movies, id)
       IN dcall' = [fn |-> "Get", id |-> id, err |-> r.err, stmt |-> r.stmt,
                    before |-> movies]
    /\ UNCHANGED <<movieVars, pipeVars, userVars, bgVars, serveVars, tnew, limVars>>

\* MovieModel.Delete(id) called directly.
movieModelDelete(id) ==
    /\ LET r == MovieModelDelete(movies, id)
       IN /\ movies' = r.tbl
          /\ dcall' = [fn |-> "Delete", id |-> id, err |-> r.err, stmt |-> r.stmt,
                       before |-> movies]
    /\ UNCHANGED <<nextMovieID, mreq, mcalls, updLog, lastOp, pipeVars, userVars,
                   bgVars, serveVars, tnew, limVars>>

\* The movies MovieModel.Insert is called with.
ModelMovies ==
    [title : {TitleA, TitleB}, year : {MinYear, 1999}, runtime : {102},
     genres : {GenresOK}]

\* MovieModel.Insert called directly, to have rows.
movieModelInsert(in) ==
    /\ nextMovieID <= MaxMovieID
    /\ LET r == MovieModelInsert(movies, nextMovieID, in)
       IN /\ movies' = r.tbl
          /\ nextMovieID' = r.seq
          /\ dcall' = [fn |-> "Insert", id |-> r.movie.id, err |-> r.err,
                       stmt |-> TRUE, before |-> movies]
    /\ UNCHANGED <<mreq, mcalls, updLog, lastOp, pipeVars, userVars, bgVars,
                   serveVars, tnew, limVars>>

NextFilters == \E f \in FiltersInputs : movieModelGetAll(f)

NextModel ==
    \/ \E id \in ModelIDs : movieModelGet(id)
    \/ \E id \in ModelIDs : movieModelDelete(id)
    \/ \E in \in ModelMovies : movieModelInsert(in)

(***************************************************************************)
(* rateLimit step by step: the mutex, the map and the cleanup goroutine.   *)
(***************************************************************************)
\* The cleanup goroutine as holder of the mutex.
Sweeper == 0 - 1

ClientIPs == {ClientIP, "10.0.0.2"}

\* r.RemoteAddr: "IP:port", or an address without a port.
RemoteAddrs == {<<ip, ":", "4000">> : ip \in ClientIPs} \cup {<<ClientIP>>}

\* net.SplitHostPort: an address without ":port" is an error.
SplitHostPort(addr) ==
    IF Len(addr) = 3 /\ addr[2] = ":"
    THEN [ip |-> addr[1], err |-> "nil"]
    ELSE [ip |-> "", err |-> "missing port in address"]

\* rateLimit up to mu.Lock(): the enabled flag and SplitHostPort, whose
\* error is answered 500 before the mutex is touched.
rateLimitSplitHostPort(p, addr) ==
    /\ preq[p].pc = "rateLimit"
    /\ IF ~limiterCfg.enabled
       THEN Set(p, [preq[p] EXCEPT !.pc = "authenticate", !.allowed = TRUE])
       ELSE LET a == SplitHostPort(addr)
            IN IF a.err # "nil"
               THEN Set(p, Returning(preq[p], serverErrorResponse(preq[p].resp)))
               ELSE Set(p, [preq[p] EXCEPT !.pc = "rlLock", !.ip = a.ip])
    /\ UNCHANGED <<storeVars, limiterCfg, clients, mu, reqCount, counters, revoked,
                   recovered, admitted, limVars>>

\* mu.Lock(): blocks while the mutex is held.
rateLimitLock(p) ==
    /\ preq[p].pc = "rlLock"
    /\ mu = 0
    /\ mu' = p
    /\ Set(p, [preq[p] EXCEPT !.pc = "rlClients"])
    /\ UNCHANGED <<storeVars, limiterCfg, clients, reqCount, counters, revoked,
                   recovered, admitted, limVars>>

\* Between Lock and Unlock: look the client up, create it when new, set
\* lastSeen, ask the limiter.
rateLimitClients(p) ==
    /\ preq[p].pc = "rlClients"
    /\ LET ip == preq[p].ip
           c == IF ip \in DOMAIN clients THEN clients[ip]
                ELSE NewClient(limiterCfg, now)
           a == Allow([c EXCEPT !.lastSeen = now], limiterCfg, now)
       IN /\ clients' = [i \in DOMAIN clients \cup {ip} |->
                           IF i = ip THEN a.client ELSE clients[i]]
          /\ Set(p, [preq[p] EXCEPT !.pc = "rlUnlock", !.allowed = a.ok])
    /\ access' = [by |-> p, heldBy |-> mu, before |-> clients, at |-> now]
    /\ UNCHANGED <<storeVars, limiterCfg, mu, reqCount, counters, revoked,
                   recovered, admitted, sweeper>>

\* The cleanup goroutine: time.Sleep(time.Minute) is over.
sweepWake ==
    /\ sweeper.pc = "sleep"
    /\ now >= sweeper.wake
    /\ sweeper' = [sweeper EXCEPT !.pc = "lock"]
    /\ UNCHANGED <<pipeVars, access>>

\* The cleanup goroutine: mu.Lock().
sweepLock ==
    /\ sweeper.pc = "lock"
    /\ mu = 0
    /\ mu' = Sweeper
    /\ sweeper' = [sweeper EXCEPT !.pc = "range"]
    /\ UNCHANGED <<storeVars, limiterCfg, clients, preq, reqCount, counters,
                   revoked, recovered, admitted, access>>

\* The clients a sweep at time t keeps, were the test ">= 3 minutes".
sweepKeepsUnder(cl, t) == {ip \in DOMAIN cl : ~(t - cl[ip].lastSeen >= SweepIdle)}

\* The clients a sweep at time t keeps: those not last seen more than three
\* minutes before t.
sweepKeeps(cl, t) == {ip \in DOMAIN cl : ~(t - cl[ip].lastSeen > SweepIdle)}

\* The cleanup goroutine: the loop over the map, deleting.
sweepRange ==
    /\ sweeper.pc = "range"
    /\ clients' = [ip \in sweepKeeps(clients, now) |-> clients[ip]]
    /\ access' = [by |-> Sweeper, heldBy |-> mu, before |-> clients, at |-> now]
    /\ sweeper' = [sweeper EXCEPT !.pc = "unlock"]
    /\ UNCHANGED <<storeVars, limiterCfg, mu, preq, reqCount, counters, revoked,
                   recovered, admitted>>

\* The cleanup goroutine: mu.Unlock(), then the next sleep.
sweepUnlock ==
    /\ sweeper.pc = "unlock"
    /\ mu = Sweeper
    /\ mu' = 0
    /\ sweeper' = [pc |-> "sleep", wake |-> now + 1]
    /\ UNCHANGED <<storeVars, limiterCfg, clients, preq, reqCount, counters,
                   revoked, recovered, admitted, access>>

\* The chain's steps other than rateLimit's leave the map and the cleanup
\* goroutine alone.
NextLimiterOn(procs, addrs, maxReqs, horizon) ==
    \/ \E p \in procs :
          \/ \E req \in RateRequests : metricsEnter(p, req, maxReqs) /\ UNCHANGED limVars
          \/ \E addr \in addrs : rateLimitSplitHostPort(p, addr)
          \/ rateLimitLock(p)
          \/ rateLimitClients(p)
          \/ rateLimitUnlock(p) /\ UNCHANGED limVars
          \/ authenticate(p) /\ UNCHANGED limVars
          \/ handler(p) /\ UNCHANGED limVars
          \/ recoverPanic(p) /\ UNCHANGED limVars
          \/ metricsExit(p) /\ UNCHANGED limVars
    \/ Tick(horizon) /\ UNCHANGED limVars
    \/ sweepWake
    \/ sweepLock
    \/ sweepRange
    \/ sweepUnlock

\* The request goroutines that contend for the mutex, and the one that
\* serves the requests of the sweep's clients one after the other.
LimiterProcs == {1, 2}
SweepProcs == {1}

\* Two request goroutines of one client and the cleanup goroutine.
NextLimiter ==
    NextLimiterOn(LimiterProcs, {<<ClientIP, ":", "4000">>, <<ClientIP>>}, MaxReqs, MaxTime)

\* One request goroutine, two clients and the cleanup goroutine, over a
\* time long enough for a client to go stale.
NextSweep == NextLimiterOn(SweepProcs, RemoteAddrs, MaxReqs, MaxRateTime)

\* Requests that would reach the store when let through: a gated route and
\* the health check with a token, and the activation.
RefuseRequests ==
    {Req("GET /v1/movies", <<"Bearer", " ", "TA1">>, NoBody),
     Req("GET /v1/healthcheck", <<"Bearer", " ", "TA2">>, NoBody),
     Req("PUT /v1/users/activated", <<>>, [bad |-> FALSE, token |-> <<"TV2">>])}

NextRefuse ==
    \/ \E p \in ReqProcs :
          \/ \E req \in RefuseRequests : metricsEnter(p, req, MaxReqs)
          \/ rateLimitLocked(p)
          \/ rateLimitUnlock(p)
          \/ authenticate(p)
          \/ requirePermission(p)
          \/ handler(p)
          \/ activateUserHandlerLookup(p)
          \/ activateUserHandlerUpdate(p)
          \/ activateUserHandlerDelete(p)
          \/ recoverPanic(p)
          \/ metricsExit(p)
    \/ Tick(MaxTime)

\* The activation of user 2 with the token issued to them.
ActivateRequests ==
    {Req("PUT /v1/users/activated", <<>>, [bad |-> FALSE, token |-> <<"TV2">>])}

\* Two goroutines serving activations, the limiter switched off.
NextActivate ==
    \E p \in Procs :
        \/ \E req \in ActivateRequests : metricsEnter(p, req, MaxReqs)
        \/ rateLimitLocked(p)
        \/ authenticate(p)
        \/ activateUserHandlerLookup(p)
        \/ activateUserHandlerUpdate(p)
        \/ activateUserHandlerDelete(p)
        \/ recoverPanic(p)
        \/ metricsExit(p)

(***************************************************************************)
(* The specifications.                                                     *)
(***************************************************************************)
NextMovies ==
    \E p \in Procs :
        \/ \E in \in CreateInputs : createMovieHandler(p, in)
        \/ \E id \in IDParams : showMovieHandler(p, id)
        \/ listMovies(p)
        \/ \E id \in IDParams : updateMovieHandlerGet(p, id)
        \/ \E in \in PatchInputs : updateMovieHandlerWrite(p, in)
        \/ \E id \in IDParams : deleteMovieHandler(p, id)

\* main(): the flags as the service runs them in Spec; no movie yet.
Init ==
    /\ InitMovies
    /\ InitPipe([enabled |-> TRUE, rate |-> 1, burst |-> PipeBurst])
    /\ InitApp

\* main() with a slow refill: RatePerTick tokens a minute, RateBurst at once.
InitRate ==
    /\ InitMovies
    /\ InitPipe([enabled |-> TRUE, rate |-> RatePerTick, burst |-> RateBurst])
    /\ InitApp

\* The movie handlers on their own.
SpecMovies ==
    /\ Init
    /\ [][NextMovies /\ UNCHANGED <<pipeVars, appVars>>]_vars

\* The middleware chain with its handlers.
Spec ==
    /\ Init
    /\ [][NextPipe /\ UNCHANGED <<movieVars, appVars>>]_vars

\* The authenticate middleware against every Authorization header.
SpecAuth ==
    /\ Init
    /\ [][NextAuth /\ UNCHANGED <<movieVars, appVars>>]_vars

\* The token lookups: authenticate and the activation.
SpecTokens ==
    /\ Init
    /\ [][NextTokens /\ UNCHANGED <<movieVars, appVars>>]_vars

\* The chain around a route whose gate panics.
SpecPanic ==
    /\ Init
    /\ [][NextPanic /\ UNCHANGED <<movieVars, appVars>>]_vars

\* The chain with a request for every way a response comes about.
SpecMetrics ==
    /\ Init
    /\ [][NextMetrics /\ UNCHANGED <<movieVars, appVars>>]_vars

\* The chain against every Origin header, plain requests and preflights.
SpecCORS ==
    /\ Init
    /\ [][NextCORS /\ UNCHANGED <<movieVars, appVars>>]_vars

\* One client against the rate limiter, over minutes.
SpecRate ==
    /\ InitRate
    /\ [][NextRate /\ UNCHANGED <<movieVars, appVars>>]_vars

\* The registration handler with its email tasks.
SpecUsers ==
    /\ Init
    /\ [][NextUsers /\ UNCHANGED <<movieVars, chainVars, serveVars, callVars, limVars>>]_vars

\* serve() with registrations in flight.
SpecShutdown ==
    /\ Init
    /\ [][NextShutdown /\ UNCHANGED <<movieVars, chainVars, callVars, limVars>>]_vars

\* The scheduler runs every goroutine that can take a step: a task that
\* has been started comes to its end, and wg.Wait() returns once the
\* counter is zero.
FairShutdown ==
    /\ WF_vars(taskEnd /\ UNCHANGED <<movieVars, chainVars, callVars, serveVars, limVars>>)
    /\ WF_vars(wgWait /\ UNCHANGED <<movieVars, chainVars, callVars, limVars>>)

SpecShutdownFair == SpecShutdown /\ FairShutdown

\* TokenModel.New with inserts that fail.
SpecTokenNew ==
    /\ Init
    /\ [][NextTokenNew /\ UNCHANGED <<movieVars, chainVars, dcall, limVars>>]_vars

\* The four handlers that validate before they write, MaxValReqs requests
\* between them.
SpecValidation ==
    /\ Init
    /\ [][NextValidation]_vars

\* MovieModel.GetAll against every Filters value.
SpecFilters ==
    /\ Init
    /\ [][NextFilters]_vars

\* MovieModel.Get, Delete and Insert called with any id.
SpecModel ==
    /\ Init
    /\ [][NextModel]_vars

\* rateLimit step by step, with two request goroutines and the cleanup
\* goroutine.
InitLimiter ==
    /\ InitMovies
    /\ InitPipeProcs([enabled |-> TRUE, rate |-> RatePerTick, burst |-> PipeBurst], Procs)
    /\ InitApp

SpecLimiter ==
    /\ InitLimiter
    /\ [][NextLimiter /\ UNCHANGED <<movieVars, userVars, bgVars, serveVars, callVars>>]_vars

\* A goroutine that holds the mutex is runnable and is run.
FairLimiter ==
    /\ \A p \in Procs :
          /\ WF_vars(rateLimitClients(p) /\ UNCHANGED <<movieVars, userVars, bgVars, serveVars, callVars>>)
          /\ WF_vars(rateLimitUnlock(p) /\ UNCHANGED <<movieVars, userVars, bgVars, serveVars, callVars, limVars>>)
    /\ WF_vars(sweepRange /\ UNCHANGED <<movieVars, userVars, bgVars, serveVars, callVars>>)
    /\ WF_vars(sweepUnlock /\ UNCHANGED <<movieVars, userVars, bgVars, serveVars, callVars>>)

SpecLimiterFair == SpecLimiter /\ FairLimiter

\* rateLimit step by step over the time in which clients go stale.
SpecSweep ==
    /\ Init
    /\ [][NextSweep /\ UNCHANGED <<movieVars, userVars, bgVars, serveVars, callVars>>]_vars

\* The chain with requests that reach the store unless refused.
SpecRefuse ==
    /\ Init
    /\ [][NextRefuse /\ UNCHANGED <<movieVars, appVars>>]_vars

\* Concurrent activations with one token.
InitActivate ==
    /\ InitMovies
    /\ InitPipeProcs([enabled |-> FALSE, rate |-> 1, burst |-> PipeBurst], Procs)
    /\ InitApp

SpecActivate ==
    /\ InitActivate
    /\ [][NextActivate /\ UNCHANGED <<movieVars, appVars>>]_vars

\* The registration handler with a store that may fail.
SpecRegFault ==
    /\ Init
    /\ [][NextRegFault /\ UNCHANGED <<movieVars, chainVars, serveVars, callVars, limVars>>]_vars
(***************************************************************************)
(* Claims on the movies table (checked under SpecMovies).                  *)
(***************************************************************************)
UpdIdx == 1..Len(updLog)

\* C1: of the MovieModel.Update calls on a row stored at version V, whatever
\* their interleaving, every call that supplies a version different from the
\* stored one (or names no row) returns ErrEditConflict, a call that supplies
\* the stored version leaves the row at V+1, and at most one call supplying V
\* succeeds.
C1_OptimisticUpdate ==
    /\ \A i \in UpdIdx :
          /\ updLog[i].supplied # updLog[i].stored
                => updLog[i].err = "ErrEditConflict" /\ updLog[i].after = updLog[i].stored
          /\ updLog[i].err = "nil"
                => /\ updLog[i].supplied = updLog[i].stored
                   /\ updLog[i].after = updLog[i].supplied + 1
    /\ \A i, j \in UpdIdx :
          (/\ i # j
           /\ updLog[i].id = updLog[j].id
           /\ updLog[i].supplied = updLog[j].supplied
           /\ updLog[i].err = "nil")
          => updLog[j].err = "ErrEditConflict"

\* Two goroutines fetched the row at the same version V; one Update won and
\* the other, still supplying V, got ErrEditConflict.
C1_Witness ==
    \E i, j \in UpdIdx :
        /\ i < j
        /\ updLog[i].id = updLog[j].id
        /\ updLog[i].supplied = updLog[j].supplied
        /\ updLog[i].err = "nil"
        /\ updLog[i].after = updLog[i].supplied + 1
        /\ updLog[j].err = "ErrEditConflict"

SuccessfulUpdates(id) ==
    Cardinality({i \in UpdIdx : updLog[i].id = id /\ updLog[i].err = "nil"})

VersionCount ==
    \A id \in DOMAIN movies : movies[id].version = 1 + SuccessfulUpdates(id)

\* What one step may do to the row id: nothing, unless the step is the Insert
\* that creates it (at version 1), a successful Update of it (version + 1) or
\* the Delete of it.
RowFrame(id) ==
    LET was == id \in DOMAIN movies
        is == id \in DOMAIN movies'
    IN \/ was /\ is /\ movies'[id] = movies[id]
       \/ ~was /\ ~is
       \/ /\ ~was /\ is
          /\ lastOp' = [op |-> "Insert", id |-> id, err |-> "nil"]
          /\ movies'[id].version = 1
       \/ /\ was /\ is
          /\ lastOp' = [op |-> "Update", id |-> id, err |-> "nil"]
          /\ movies'[id].version = movies[id].version + 1
       \/ /\ was /\ ~is
          /\ lastOp' = [op |-> "Delete", id |-> id, err |-> "nil"]

ReadOnlyStep ==
    (\/ lastOp'.op \in {"Get", "GetAll"}
     \/ lastOp'.err # "nil"
     \/ lastOp' = lastOp)
    => movies' = movies

\* C2: the version of every row is 1 plus the number of successful Updates
\* of that row; Insert stores version 1, a successful Update adds exactly 1,
\* and Get, GetAll, an Update answered ErrEditConflict and statements on
\* other rows leave the row as it was.
C2_VersionCountsUpdates ==
    /\ []VersionCount
    /\ [][ReadOnlyStep /\ \A id \in 1..MaxMovieID : RowFrame(id)]_vars

\* A row that took one successful Update and one refused Update, while
\* another row stays at the version its Insert gave it.
C2_Witness ==
    \E id \in DOMAIN movies :
        /\ movies[id].version = 2
        /\ \E i \in UpdIdx : updLog[i].id = id /\ updLog[i].err = "ErrEditConflict"
        /\ \E other \in DOMAIN movies : other # id /\ movies[other].version = 1

\* C3: a PATCH answered 200 carries the updated entity: the movie of the
\* response has version V+1, V being the version the handler read, and that
\* is the version stored in the row.
C3_PatchReturnsNewVersion ==
    \A p \in Procs :
        (mreq[p].resp.op = "update" /\ mreq[p].resp.status = StatusOK)
        => /\ mreq[p].resp.movie.version = mreq[p].resp.readVersion + 1
           /\ mreq[p].resp.movie.version = mreq[p].resp.storedVersion

(***************************************************************************)
(* The permission gate.                                                    *)
(***************************************************************************)
\* The request went through the whole chain below metrics: its response is
\* the one the client gets.
Answered(r) == r.pc = "metricsOut"

\* The request was dispatched to a route registered through
\* requirePermission.
ReachedGate(r) == Answered(r) /\ r.nextCalled /\ Gated(r.req.route)

\* C4: for every route registered through requirePermission(code, h), h is
\* invoked for a request if and only if the user authenticate attached is
\* not the anonymous sentinel, is activated, and holds code in the store at
\* the time of the request.
C4_HandlerIffPermitted ==
    \A p \in ReqProcs :
        LET r == preq[p]
        IN ReachedGate(r) =>
             (r.handlerRan <=>
                (~r.gateFacts.anon /\ r.gateFacts.activated /\ r.gateFacts.permitted))

\* C5: a request at a gated route is answered 401 when its user is the
\* anonymous sentinel, otherwise 403 when the user is not activated,
\* otherwise 403 when the user lacks the code; the permission set is read
\* from the store only for authenticated, activated users.
C5_GateAnswersInOrder ==
    \A p \in ReqProcs :
        LET r == preq[p]
            f == r.gateFacts
        IN ReachedGate(r) =>
             /\ f.anon => r.resp.status = StatusUnauthorized
             /\ (~f.anon /\ ~f.activated) => r.resp.status = StatusForbidden
             /\ (~f.anon /\ f.activated /\ ~f.permitted) =>
                    r.resp.status = StatusForbidden
             /\ r.permLookups > 0 => (~f.anon /\ f.activated)

\* C6: once a code has been removed from a user's set in the store, every
\* gated request of that user that starts afterwards and requires the code
\* is answered 403 and its handler is not invoked.
C6_RevocationTakesEffect ==
    \A p \in ReqProcs :
        LET r == preq[p]
        IN (/\ ReachedGate(r)
            /\ <<r.ctx.user.id, RequiredPermission(r.req.route)>> \in r.revokedAtStart)
           => (r.resp.status = StatusForbidden /\ ~r.handlerRan)

(***************************************************************************)
(* authenticate and the token lookup.                                      *)
(***************************************************************************)
\* The text after "Bearer " in a header.
TokenOf(header) == SubSeq(header, 3, Len(header))

\* The header is exactly "Bearer <token>" with a token of 26 bytes.
WellFormed(header) ==
    /\ Len(header) >= 3
    /\ header[1] = "Bearer"
    /\ header[2] = " "
    /\ \A i \in 3..Len(header) : header[i] # " "
    /\ Bytes(TokenOf(header)) = TokenBytes

\* The rows of the store a plaintext stands for under a scope, now.
MatchingRows(scope, plaintext) ==
    {row \in tokens :
        row.hash = Hash(plaintext) /\ row.scope = scope /\ row.expiry > now}

Resolves(header) == MatchingRows(ScopeAuthentication, TokenOf(header)) # {}

Owner(header) ==
    UserOf(users,
           (CHOOSE row \in MatchingRows(ScopeAuthentication, TokenOf(header)) :
                TRUE).userID)

\* Goroutine p takes the step that is the authenticate middleware.
AuthenticateStep(p) == preq[p].pc = "authenticate" /\ preq'[p].pc # "authenticate"

\* 401 with the challenge header, downstream not called.
Rejected401(r) ==
    /\ r.pc = "return"
    /\ ~r.nextCalled
    /\ ~r.ctx.set
    /\ r.resp.status = StatusUnauthorized
    /\ "WWW-Authenticate: Bearer" \in r.resp.sent

\* Downstream called with the user attached, nothing written yet.
PassedOn(r, user) ==
    /\ r.pc # "return"
    /\ r.nextCalled
    /\ r.ctx.set
    /\ r.ctx.user = user
    /\ r.resp.status = 0

LookupStep(p) == preq'[p].tokenLookups = preq[p].tokenLookups + 1

\* C8: GetForToken(scope, plaintext) returns user u iff the store holds a
\* token with the digest of the plaintext, the requested scope, an expiry
\* that has not passed, and owner u; otherwise it returns NotFound.  So an
\* expired token or an activation token never authenticates a request, and
\* an authentication token never activates an account.
C8_GetForTokenExact ==
    [][\A p \in ReqProcs :
          /\ LookupStep(p) =>
                LET l == preq'[p].lookup
                    rows == MatchingRows(l.scope, l.plaintext)
                IN /\ (l.err = "nil") <=> (rows # {})
                   /\ l.err = "nil" =>
                         \E row \in rows : l.user = UserOf(users, row.userID)
                   /\ l.err # "nil" => l.err = "ErrRecordNotFound"
          /\ (AuthenticateStep(p) /\ preq'[p].ctx.set /\ ~IsAnonymous(preq'[p].ctx.user)) =>
                \E row \in tokens :
                    /\ row.hash = Hash(TokenOf(preq[p].req.header))
                    /\ row.scope = ScopeAuthentication
                    /\ row.expiry > now
                    /\ row.userID = preq'[p].ctx.user.id
          /\ (preq[p].pc = "activate" /\ preq'[p].pc = "activateUpdate") =>
                \E row \in tokens :
                    /\ row.hash = Hash(preq[p].req.body.token)
                    /\ row.scope = ScopActivation
                    /\ row.expiry > now
                    /\ row.userID = preq'[p].actUser.id]_vars

\* User 2 was activated with its activation token; a later attempt to
\* activate with user 2's authentication token finds no row.
C8_Witness ==
    /\ users[2].activated
    /\ \E p \in ReqProcs :
          /\ Answered(preq[p])
          /\ preq[p].req.route = "PUT /v1/users/activated"
          /\ preq[p].req.body.token = <<"TA2">>
          /\ preq[p].lookup.scope = ScopActivation
          /\ preq[p].lookup.err = "ErrRecordNotFound"
          /\ preq[p].resp.status = StatusUnprocessableEntity

C9_AdmissionBound ==
    /\ \A p \in ReqProcs :
          LET r == preq[p]
          IN (r.pc \notin {"idle", "rateLimit", "rlUnlock"} /\ ~r.allowed) =>
                (~r.nextCalled /\ r.pc \in {"return", "metricsOut"}
                 /\ r.resp.status = StatusTooManyRequests)
    /\ (now = admitted.first /\ admitted.seen > limiterCfg.burst) =>
          admitted.count = limiterCfg.burst
    /\ admitted.first >= 0 =>
          admitted.count <= limiterCfg.burst + limiterCfg.rate * (now - admitted.first)

(***************************************************************************)
(* The order of the chain.                                                 *)
(***************************************************************************)
\* recoverPanic's deferred function is on the goroutine's stack: from its
\* call of enableCORS until the deferred function has run.
RecoverInstalled(r) == r.pc \notin {"idle", "metricsOut"}

\* C11: panic recovery is the outermost layer of the chain: while a request
\* is in any layer - metrics, CORS, rate limiting, authentication, the
\* gates or the handler - a panic there passes through recoverPanic.
C11_RecoveryOutermost ==
    \A p \in ReqProcs : preq[p].pc # "idle" => RecoverInstalled(preq[p])

(***************************************************************************)
(* enableCORS.                                                             *)
(***************************************************************************)
\* The origin is an entry of the trusted list.
InTrustedList(origin) == origin \in {TrustedOrigins[i] : i \in 1..Len(TrustedOrigins)}

\* C17: a request gets Access-Control-Allow-Origin set to its origin iff the
\* origin equals an entry of the trusted list; for an untrusted or absent
\* origin the header is never set and the request is passed downstream.
C17_AllowOriginIffTrusted ==
    \A p \in ReqProcs :
        LET r == preq[p]
        IN r.pc # "idle" =>
             /\ (r.resp.allowOrigin # "") <=> InTrustedList(r.req.origin)
             /\ r.resp.allowOrigin \in {"", r.req.origin}
             /\ ~InTrustedList(r.req.origin) => r.corsNext = 1

\* A GET from a trusted origin was answered by the handler with the origin
\* in Access-Control-Allow-Origin.
C17_Witness ==
    \E p \in ReqProcs :
        /\ Answered(preq[p])
        /\ preq[p].req.route = "GET /v1/healthcheck"
        /\ preq[p].req.origin = "https://app.example"
        /\ preq[p].resp.allowOrigin = "https://app.example"
        /\ preq[p].handlerRan
        /\ preq[p].resp.status = StatusOK

\* enableCORS answered the request itself: 200 with the two Allow headers,
\* and nothing below it ran.
ShortCircuited(r) ==
    /\ r.corsNext = 0
    /\ r.pc \in {"return", "metricsOut"}
    /\ r.resp.status = StatusOK
    /\ "Access-Control-Allow-Methods: OPTIONS, PUT, PATCH, DELETE" \in r.resp.sent
    /\ "Access-Control-Allow-Headers: Authorization, Content-Type" \in r.resp.sent
    /\ ~r.allowed /\ ~r.nextCalled /\ ~r.handlerRan /\ ~r.ctx.set
    /\ r.tokenLookups = 0

\* C18: enableCORS short-circuits a request (200 with the Allow headers, no
\* rate limiting, authentication, router or handler) iff it is an OPTIONS
\* request with Access-Control-Request-Method from a trusted origin; every
\* other request is passed downstream exactly once.
C18_PreflightShortCircuit ==
    \A p \in ReqProcs :
        LET r == preq[p]
            preflight == /\ IsOptions(r.req.route)
                         /\ r.req.acrm
                         /\ InTrustedList(r.req.origin)
        IN r.pc # "idle" =>
             /\ preflight => ShortCircuited(r)
             /\ ~preflight => r.corsNext = 1
             /\ r.corsNext = 1 =>
                   ("Access-Control-Allow-Methods: OPTIONS, PUT, PATCH, DELETE"
                      \notin r.resp.headers)

\* A preflight from a trusted origin was answered by enableCORS.
C18_Witness ==
    \E p \in ReqProcs :
        /\ Answered(preq[p])
        /\ preq[p].req = CORSReq("OPTIONS /v1/healthcheck", "https://allowed.example", TRUE)
        /\ ShortCircuited(preq[p])
        /\ admitted.seen = 0

(***************************************************************************)
(* The metrics counters.                                                   *)
(***************************************************************************)
InFlight == {p \in ReqProcs : preq[p].pc # "idle"}

RECURSIVE SumOver(_, _)
SumOver(f, S) ==
    IF S = {} THEN 0
    ELSE LET s == CHOOSE x \in S : TRUE IN f[s] + SumOver(f, S \ {s})

\* C19: total_responses_sent <= total_requests_received always; with no
\* request in flight received = sent = the sum of the per-status counters,
\* whatever the outcomes were (429, 401, a panic); the status counted is the
\* first one written, 200 when none was.
C19_CountersAgree ==
    /\ counters.sent <= counters.received
    /\ counters.received = counters.sent + Cardinality(InFlight)
    /\ counters.sent = SumOver(counters.byStatus, Statuses)
    /\ InFlight = {} =>
          /\ counters.received = counters.sent
          /\ counters.received = SumOver(counters.byStatus, Statuses)
    /\ \A p \in ReqProcs :
          (Answered(preq[p]) /\ preq[p].panicked) =>
              ObservedStatus(preq[p].resp) = StatusInternalServerError
    /\ \A p \in ReqProcs :
          (Answered(preq[p]) /\ preq[p].corsNext = 1 /\ ~preq[p].allowed) =>
              ObservedStatus(preq[p].resp) = StatusTooManyRequests

\* Nothing in flight after a panic (500) and a refusal by the rate limiter
\* (429), both counted.
C19_Witness ==
    /\ InFlight = {}
    /\ counters.received = 2
    /\ counters.byStatus[StatusInternalServerError] = 1
    /\ counters.byStatus[StatusTooManyRequests] = 1

(***************************************************************************)
(* C13: the activation.                                                    *)
(***************************************************************************)
\* The step of goroutine p in which Users.Update succeeded.
ActivationUpdated(p) ==
    /\ preq[p].pc = "activateUpdate"
    /\ preq'[p].pc = "activateDelete"

\* The step of goroutine p in which activateUserHandler writes its 200.
ActivationAnswered200(p) ==
    /\ preq[p].pc = "activateDelete"
    /\ preq'[p].pc = "return"
    /\ preq'[p].resp.status = StatusOK

ActivationTokensOf(tkns, u) ==
    {row \in tkns : row.userID = u /\ row.scope = ScopActivation}

Answered202(p) == ureq[p].pc = "idle" /\ ureq[p].resp.status = StatusAccepted

\* The columns of a row of the tokens table.
TokenColumns == {"hash", "userID", "expiry", "scope"}

\* C12: when POST /v1/users has answered 202, the users table holds a row
\* with the submitted name and email and activated = false, the tokens
\* table holds an activation-scope token of that user that expires 3 days
\* after it was issued, the row carries the digest of the token and has no
\* column for its plaintext, and an email task has been started with that plaintext for
\* that user and address.
C12_RegistrationEffect ==
    \A p \in Procs :
        Answered202(p) =>
            LET r == ureq[p]
                u == r.resp.user.id
            IN /\ u \in DOMAIN users
               /\ users[u].name = r.in.name
               /\ users[u].email = r.in.email
               /\ users[u].activated = FALSE
               /\ r.resp.user.activated = FALSE
               /\ \E row \in tokens :
                     /\ row.userID = u
                     /\ row.scope = ScopActivation
                     /\ row.expiry = r.issuedAt + ActivationTTL
                     /\ row.hash = Hash(r.token.plaintext)
                     /\ DOMAIN row = TokenColumns
               /\ \A row \in tokens : row.userID = u => row.scope = ScopActivation
               /\ \E t \in DOMAIN tasks :
                     /\ tasks[t].fn.activationToken = r.token.plaintext
                     /\ tasks[t].fn.userID = u
                     /\ tasks[t].fn.to = r.in.email

C12_Witness ==
    \E p \in Procs :
        /\ Answered202(p)
        /\ ureq[p].in = RegBody("Ann", "ann@x.com", "pa55word12")
        /\ ureq[p].issuedAt = 1
        /\ \E row \in tokens :
              /\ row.userID = ureq[p].resp.user.id
              /\ row.expiry = 1 + ActivationTTL
        /\ \E t \in DOMAIN tasks : tasks[t].fn.userID = ureq[p].resp.user.id

\* A row of the users table carries this email.
EmailTaken(email) == \E id \in DOMAIN users : users[id].email = email

\* The step in which the Insert of goroutine p's registration runs.
InsertStep(p) == ureq[p].pc = "insert" /\ ureq'[p] # ureq[p]

Running == {t \in DOMAIN tasks : tasks[t].state = "running"}

\* C15: on every shutdown path, serve() has returned only when every task
\* started through background() has finished.
C15_ReturnAfterTasks ==
    (mainPc \in Returned /\ shutPc # "signal") => Running = {}

\* The path on which srv.Shutdown returns nil.
C15_NilPathWaits == mainPc = "returnedNil" => Running = {}

\* C16: the counter of app.wg is the number of running tasks in every
\* state; it goes up by one when background() starts a task and down by one
\* in the step that ends a task, by return or by a recovered panic, and
\* that step neither ends the process nor makes serve return; and a
\* goroutine waiting in wg.Wait() gets on once the tasks have ended (or the
\* process has ended before).
C16_TaskCounter ==
    /\ [](wg = Cardinality(Running))
    /\ [][/\ Len(tasks') >= Len(tasks)
          /\ Len(tasks') > Len(tasks) =>
                /\ Len(tasks') = Len(tasks) + 1
                /\ tasks'[Len(tasks')].state = "running"
                /\ SubSeq(tasks', 1, Len(tasks)) = tasks
                /\ wg' = wg + 1
          /\ \A t \in DOMAIN tasks :
                tasks'[t] # tasks[t] =>
                   /\ tasks[t].state = "running"
                   /\ tasks'[t].state \in {"returned", "recovered"}
                   /\ tasks'[t].fn = tasks[t].fn
                   /\ wg' = wg - 1
                   /\ UNCHANGED <<exited, mainPc, shutPc>>
          /\ tasks' = tasks => wg' = wg]_vars
    /\ (shutPc = "wait") ~> (shutPc \in {"sendNil", "done"} \/ exited)

C16_Witness ==
    /\ ~exited
    /\ shutPc = "sendNil"
    /\ mainPc = "recv"
    /\ wg = 0
    /\ \E t \in DOMAIN tasks : tasks[t].state = "recovered"
    /\ \E t \in DOMAIN tasks : tasks[t].state = "returned"

(***************************************************************************)
(* C20: TokenModel.New when its insert fails.                              *)
(***************************************************************************)
\* C20: when the insert inside TokenModel.New failed, New has returned a
\* nil token with the error and the tokens table is as it was.
C20_NoTokenOnFailure ==
    (tnew.calls > 0 /\ tnew.err # "nil") =>
        /\ tnew.token = NilToken
        /\ tokens = tnew.before

\* The half of C20 about the store.
C20_NoRowOnFailure ==
    (tnew.calls > 0 /\ tnew.err # "nil") => tokens = tnew.before

(***************************************************************************)
(* C21: a validation failure writes nothing.                               *)
(***************************************************************************)
\* The four tables are as they were before the step.
TablesUnchanged == UNCHANGED <<movies, users, tokens, permissions>>

\* The step in which the movie handler of goroutine p answers 422.
MovieAnswers422(p) ==
    /\ mreq'[p] # mreq[p]
    /\ mreq'[p].pc = "idle"
    /\ mreq'[p].resp.op \in {"create", "update"}
    /\ mreq'[p].resp.status = StatusUnprocessableEntity

\* The step in which the registration of goroutine p answers 422.
RegAnswers422(p) ==
    /\ ureq'[p] # ureq[p]
    /\ ureq'[p].pc = "idle"
    /\ ureq'[p].resp.status = StatusUnprocessableEntity

\* The step in which the activation of goroutine p answers 422.
ActAnswers422(p) ==
    /\ preq[p].pc \in {"activate", "activateUpdate", "activateDelete"}
    /\ preq'[p].pc = "return"
    /\ preq'[p].resp.status = StatusUnprocessableEntity

\* C21: a request to POST /v1/movies, PATCH /v1/movies/:id, POST /v1/users
\* or PUT /v1/users/activated that is answered 422 has written nothing: the
\* step that answers 422 leaves movies, users, tokens and permissions as
\* they are, it is taken from a place of the handler that no write comes
\* before, and every step of the request up to that place leaves the four
\* tables as they are.
C21_NoWriteOn422 ==
    [][\A p \in ReqProcs :
          /\ MovieAnswers422(p) =>
                TablesUnchanged /\ mreq[p].pc \in {"idle", "fetched"}
          /\ (mreq'[p] # mreq[p] /\ mreq'[p].pc = "fetched") => TablesUnchanged
          /\ RegAnswers422(p) =>
                TablesUnchanged /\ ureq[p].pc \in {"idle", "insert"}
          /\ (ureq'[p] # ureq[p] /\ ureq'[p].pc = "insert") => TablesUnchanged
          /\ ActAnswers422(p) => TablesUnchanged /\ preq[p].pc = "activate"
          /\ (preq'[p] # preq[p]
              /\ preq'[p].pc \in {"rateLimit", "rlUnlock", "authenticate",
                                  "activate"}) => TablesUnchanged]_vars

C21_Witness ==
    \E p, q \in ReqProcs :
        /\ mreq[p].pc = "idle"
        /\ mreq[p].resp.op = "update"
        /\ mreq[p].resp.status = StatusUnprocessableEntity
        /\ 1 \in DOMAIN movies
        /\ movies[1].version = 1 /\ movies[1].title = TitleA
        /\ ureq[q].pc = "idle"
        /\ ureq[q].resp.status = StatusUnprocessableEntity
        /\ ureq[q].resp.errors = {"name", "email", "password"}
        /\ DOMAIN users = {1, 2, 3}

(***************************************************************************)
(* C22: the request-scoped user.                                           *)
(***************************************************************************)
\* C22: on every request on which contextSetUser has stored a user,
\* contextGetUser returns that user, and contextGetUser panics only on a
\* request on which none was stored.
C22_ContextRoundTrip ==
    \A p \in ReqProcs :
        LET got == contextGetUser(preq[p].ctx)
        IN /\ preq[p].ctx.set => got.ok /\ got.user = preq[p].ctx.user
           /\ ~got.ok => ~preq[p].ctx.set

\* The half of C22 that holds: without a stored user contextGetUser panics.
C22_PanicsWhenUnset ==
    \A p \in ReqProcs : ~preq[p].ctx.set => ~contextGetUser(preq[p].ctx).ok

(***************************************************************************)
(* C23: the sort safelist.                                                 *)
(***************************************************************************)
\* The Sort value is an element of the safelist.
InSafelist(f) == f.sort \in {f.sortSafelist[i] : i \in 1..Len(f.sortSafelist)}

\* C23: GetAll panics in sortColumn exactly for a Sort value outside the
\* safelist and then sends no statement; a statement is sent only with a
\* Sort value of the safelist, its column being that value without the
\* leading "-" and its direction DESC exactly for a leading "-"; and a
\* Filters value that ValidateFilters accepts does not panic.
C23_SortSafelist ==
    dcall.fn = "GetAll" =>
        LET f == dcall.filters
            q == dcall.query
        IN /\ q.panic <=> ~InSafelist(f)
           /\ q.panic => ~q.stmt
           /\ q.stmt =>
                /\ InSafelist(f)
                /\ \E i \in 1..Len(f.sortSafelist) :
                      \/ q.column = f.sortSafelist[i]
                      \/ <<"-">> \o q.column = f.sortSafelist[i]
                /\ q.column = f.sort \/ <<"-">> \o q.column = f.sort
                /\ q.direction = IF f.sort # <<>> /\ f.sort[1] = "-" THEN "DESC" ELSE "ASC"
           /\ dcall.errors = {} => ~q.panic

C23_Witness ==
    /\ dcall.fn = "GetAll"
    /\ dcall.filters.sort = <<"id; DROP TABLE movies">>
    /\ Len(dcall.filters.sortSafelist) = 6
    /\ dcall.query.panic
    /\ ~dcall.query.stmt
    /\ "sort" \in dcall.errors

(***************************************************************************)
(* C24: MovieModel.Get and MovieModel.Delete.                              *)
(***************************************************************************)
\* C24: Get(id) and Delete(id) with id < 1 return ErrRecordNotFound, send
\* no statement and leave the table as it was; Delete(id) with id >= 1
\* returns ErrRecordNotFound exactly when the table held no row with that id,
\* leaving the table as it was, and otherwise removes that row and no other.
C24_GetDeleteNotFound ==
    dcall.fn \in {"Get", "Delete"} =>
        /\ dcall.id < 1 =>
              /\ dcall.err = "ErrRecordNotFound"
              /\ ~dcall.stmt
              /\ movies = dcall.before
        /\ dcall.fn = "Get" => movies = dcall.before
        /\ (dcall.fn = "Delete" /\ dcall.id >= 1) =>
              /\ dcall.stmt
              /\ dcall.err = "ErrRecordNotFound" <=> dcall.id \notin DOMAIN dcall.before
              /\ dcall.err = "ErrRecordNotFound" => movies = dcall.before
              /\ dcall.err # "ErrRecordNotFound" =>
                    /\ dcall.err = "nil"
                    /\ DOMAIN movies = DOMAIN dcall.before \ {dcall.id}
                    /\ \A i \in DOMAIN movies : movies[i] = dcall.before[i]

C24_Witness ==
    /\ dcall.fn = "Delete"
    /\ dcall.id = 1
    /\ dcall.err = "nil"
    /\ DOMAIN dcall.before = {1, 2}
    /\ DOMAIN movies = {2}

(***************************************************************************)
(* The rate limiter's mutex and its sweep.                                 *)
(***************************************************************************)
\* The mutex is held by the goroutine that made the last access to the map.
AccessUnderMutex == access.by # 0 => access.heldBy = access.by

\* A request goroutine holds the mutex exactly between Lock and Unlock: not
\* before, not while authenticate and the handlers run, not while a 429 or
\* a 500 is written, not after it returned.
HeldOnlyInside ==
    \A p \in Procs : mu = p <=> preq[p].pc \in {"rlClients", "rlUnlock"}

\* The cleanup goroutine holds the mutex exactly between its Lock and Unlock.
SweeperHeldOnlyInside == mu = Sweeper <=> sweeper.pc \in {"range", "unlock"}

\* C25: every access to the clients map is made by the holder of the mutex;
\* a request goroutine holds the mutex only between Lock and Unlock, so on
\* every path (admitted, 429, SplitHostPort error) it is released before the
\* response or the next handler; and a held mutex is always released again,
\* so requests and the sweep never block each other for ever.
C25_MutexDiscipline ==
    /\ [](AccessUnderMutex /\ HeldOnlyInside /\ SweeperHeldOnlyInside)
    /\ (mu # 0) ~> (mu = 0)

\* One goroutine is in the locked section, the other request goroutine and
\* the cleanup goroutine wait for the mutex, and a 429 has been written
\* with the mutex released.
C25_Witness ==
    /\ preq[1].pc = "rlUnlock"
    /\ preq[2].pc = "rlLock"
    /\ sweeper.pc = "lock"
    /\ mu = 1
    /\ access.by = 1

\* C26: right after the sweep's loop the map holds exactly the entries that
\* were not idle for more than 3 minutes, each unchanged; and an entry
\* leaves the map only in that loop and only when it was idle for more than
\* 3 minutes, so a client seen within the last 3 minutes keeps its bucket.
C26_SweepExact ==
    /\ [](sweeper.pc = "unlock" =>
            /\ access.by = Sweeper
            /\ DOMAIN clients =
                 {ip \in DOMAIN access.before :
                     access.at - access.before[ip].lastSeen <= SweepIdle}
            /\ \A ip \in DOMAIN clients : clients[ip] = access.before[ip])
    /\ [][\A ip \in DOMAIN clients :
            /\ ip \notin DOMAIN clients' =>
                  /\ sweeper.pc = "range"
                  /\ sweeper'.pc = "unlock"
                  /\ now - clients[ip].lastSeen > SweepIdle
            /\ (sweeper.pc = "range" /\ sweeper'.pc = "unlock"
                /\ now - clients[ip].lastSeen <= SweepIdle) =>
                  (ip \in DOMAIN clients' /\ clients'[ip] = clients[ip])]_vars

\* A sweep removed the client idle for 4 minutes and kept the one idle for
\* exactly 3.
C26_Witness ==
    /\ sweeper.pc = "unlock"
    /\ DOMAIN access.before = ClientIPs
    /\ DOMAIN clients = {"10.0.0.2"}
    /\ access.at - clients["10.0.0.2"].lastSeen = SweepIdle
    /\ access.at - access.before[ClientIP].lastSeen = SweepIdle + 1

\* C27: a request answered 429 by rateLimit has had no token lookup, no
\* permission lookup and no handler call, authenticate was not called for
\* it, and the step that refuses it leaves the store as it was.
C27_RefusedNoStoreAccess ==
    /\ [](\A p \in ReqProcs :
            LET r == preq[p]
            IN r.resp.status = StatusTooManyRequests =>
                  /\ r.tokenLookups = 0
                  /\ r.permLookups = 0
                  /\ ~r.handlerRan
                  /\ ~r.nextCalled
                  /\ r.lookup = NoLookup
                  /\ r.pc \in {"return", "metricsOut"})
    /\ [][\A p \in ReqProcs :
            (preq[p].pc = "rlUnlock" /\ ~preq[p].allowed /\ preq'[p].pc # "rlUnlock") =>
                UNCHANGED <<users, tokens, permissions, movies>>]_vars

\* A second request bearing a token was refused in the same tick, after the
\* first was let through to the store.
C27_Witness ==
    /\ preq[1].resp.status = StatusTooManyRequests
    /\ preq[1].req.header = <<"Bearer", " ", "TA1">>
    /\ preq[1].pc = "metricsOut"
    /\ reqCount = 2
    /\ counters.byStatus[StatusInternalServerError] + counters.byStatus[StatusOK] = 1

(***************************************************************************)
(* Registration: the email task, and what a failed registration leaves.    *)
(***************************************************************************)
\* C28: the email task never alters the response of the request that
\* started it: the request answered 202 writes one response, and the err
\* the handler tests after writeJSON is the one writeJSON returned.
C28_TaskLeavesResponse ==
    \A p \in Procs :
        ureq[p].resp.status = StatusAccepted =>
            /\ ureq[p].resp.writes = 1
            /\ ureq[p].err = "nil"

\* C29: of the requests that carry user 2's activation token at most one is
\* answered 200, the others 409 or 422, and together they raise the user's
\* version by at most one.
C29_TokenSingleUse ==
    /\ counters.byStatus[StatusOK] <= 1
    /\ users[2].version <= 2
    /\ \A s \in Statuses \ {StatusOK, StatusConflict, StatusUnprocessableEntity} :
          counters.byStatus[s] = 0

\* C30: once no registration is in flight, every user row, permission row
\* and token row added since the start belongs to a registration that was
\* answered 202: a registration answered otherwise has left nothing.
C30_AllOrNothing ==
    HandlersIdle =>
        LET new == {a.id : a \in accepted}
        IN /\ DOMAIN users \subseteq {1, 2, 3} \cup new
           /\ DOMAIN permissions \subseteq {1, 2, 3} \cup new
           /\ \A row \in tokens : row.userID \in {1, 2, 3} \cup new

====
